---- MODULE Spec2Model ----
(***************************************************************************)
(* A model of the jscal calendar engine: the recurrence engine             *)
(* (Recurrence.parseRRule / formatRRule / expandRecurrence), the event     *)
(* store (CalendarCore) and its queries.                                   *)
(*                                                                         *)
(* Conventions.                                                            *)
(*  - A JavaScript string is a sequence of one-character strings, so that  *)
(*    split, join, toUpperCase, parseInt, substring and padStart are       *)
(*    modelled by what they do to the characters.                          *)
(*  - A Date is its time value, a whole number of minutes since            *)
(*    1970-01-01T00:00 (the code counts milliseconds; nothing modelled     *)
(*    here is finer than a minute).  The local time zone is UTC.  The      *)
(*    Invalid Date has the time value NaN.  A Date has a largest           *)
(*    representable time value (ECMAScript: 8.64e15 ms); here it is the    *)
(*    last minute of the year LastYear.                                    *)
(*  - An absent / undefined / null property is the empty sequence <<>>,    *)
(*    a present one is the one-element sequence <<v>>.                     *)
(***************************************************************************)
EXTENDS Integers, Sequences, FiniteSets, TLC

(***************************************************************************)
(* Optional values                                                         *)
(***************************************************************************)
None == <<>>

Some(v) == <<v>>

IsSome(o) == o # <<>>

Val(o) == o[1]

(***************************************************************************)
(* Numbers                                                                 *)
(***************************************************************************)
\* The number NaN (parseInt of a non-number; the time value of an Invalid Date).
NaN == -1000000

IsNaN(n) == n = NaN

\* JavaScript's relational operators: every comparison with NaN is false.
Lt(a, b) == ~IsNaN(a) /\ ~IsNaN(b) /\ a < b

Gt(a, b) == ~IsNaN(a) /\ ~IsNaN(b) /\ a > b

Ge(a, b) == ~IsNaN(a) /\ ~IsNaN(b) /\ a >= b

Le(a, b) == ~IsNaN(a) /\ ~IsNaN(b) /\ a <= b

\* ToBoolean of a number: 0 and NaN are falsy.
Truthy(n) == n # 0 /\ ~IsNaN(n)

\* a + b on numbers.
Add(a, b) == IF IsNaN(a) \/ IsNaN(b) THEN NaN ELSE a + b

\* a - b on numbers.
Sub(a, b) == IF IsNaN(a) \/ IsNaN(b) THEN NaN ELSE a - b

(***************************************************************************)
(* Strings as sequences of characters                                      *)
(***************************************************************************)
LowerCase == <<"a","b","c","d","e","f","g","h","i","j","k","l","m",
               "n","o","p","q","r","s","t","u","v","w","x","y","z">>

UpperCase == <<"A","B","C","D","E","F","G","H","I","J","K","L","M",
               "N","O","P","Q","R","S","T","U","V","W","X","Y","Z">>

Digits == <<"0","1","2","3","4","5","6","7","8","9">>

IsDigit(c) == \E i \in DOMAIN Digits : Digits[i] = c

DigitVal(c) == (CHOOSE i \in DOMAIN Digits : Digits[i] = c) - 1

ToUpperChar(c) ==
    IF \E i \in DOMAIN LowerCase : LowerCase[i] = c
    THEN UpperCase[CHOOSE i \in DOMAIN LowerCase : LowerCase[i] = c]
    ELSE c

ToLowerChar(c) ==
    IF \E i \in DOMAIN UpperCase : UpperCase[i] = c
    THEN LowerCase[CHOOSE i \in DOMAIN UpperCase : UpperCase[i] = c]
    ELSE c

\* String.prototype.toUpperCase
ToUpperCase(s) == [i \in DOMAIN s |-> ToUpperChar(s[i])]

\* String.prototype.toLowerCase
ToLowerCase(s) == [i \in DOMAIN s |-> ToLowerChar(s[i])]

\* String.prototype.substring(from, to), 0-based, to exclusive, clamped.
Substring(s, from, to) ==
    LET t == IF to > Len(s) THEN Len(s) ELSE to
    IN  IF from >= t THEN <<>> ELSE SubSeq(s, from + 1, t)

\* The index of the first occurrence of character c in s, 0 if none.
IndexOf(s, c) ==
    IF \E i \in DOMAIN s : s[i] = c
    THEN CHOOSE i \in DOMAIN s : s[i] = c /\ \A j \in 1..(i - 1) : s[j] # c
    ELSE 0

RECURSIVE Split(_, _)
\* String.prototype.split(sep) for a one-character separator: always at
\* least one piece, the empty string splits into one empty piece.
Split(s, sep) ==
    LET i == IndexOf(s, sep)
    IN  IF i = 0 THEN <<s>>
        ELSE <<SubSeq(s, 1, i - 1)>> \o Split(SubSeq(s, i + 1, Len(s)), sep)

RECURSIVE Join(_, _)
\* Array.prototype.join(sep) of an array of strings.
Join(parts, sep) ==
    IF Len(parts) = 0 THEN <<>>
    ELSE IF Len(parts) = 1 THEN parts[1]
    ELSE parts[1] \o <<sep>> \o Join(Tail(parts), sep)

RECURSIVE DigitsValue(_, _)
\* The value of the longest prefix of decimal digits of s, after acc.
DigitsValue(s, acc) ==
    IF Len(s) = 0 \/ ~IsDigit(s[1]) THEN acc
    ELSE DigitsValue(Tail(s), 10 * acc + DigitVal(s[1]))

RECURSIVE TrimStart(_)
TrimStart(s) == IF Len(s) > 0 /\ s[1] = " " THEN TrimStart(Tail(s)) ELSE s

\* parseInt(s, 10): leading blanks, an optional sign, the longest prefix of
\* digits; NaN when there is no digit.
ParseInt(s) ==
    LET t    == TrimStart(s)
        neg  == Len(t) > 0 /\ t[1] = "-"
        body == IF Len(t) > 0 /\ (t[1] = "-" \/ t[1] = "+") THEN Tail(t) ELSE t
    IN  IF Len(body) = 0 \/ ~IsDigit(body[1]) THEN NaN
        ELSE IF neg THEN 0 - DigitsValue(body, 0) ELSE DigitsValue(body, 0)

RECURSIVE NatToString(_)
NatToString(n) ==
    IF n < 10 THEN <<Digits[n + 1]>>
    ELSE NatToString(n \div 10) \o <<Digits[(n % 10) + 1]>>

\* String(n) / template-literal conversion of a number.
NumToString(n) ==
    IF IsNaN(n) THEN <<"N","a","N">>
    ELSE IF n < 0 THEN <<"-">> \o NatToString(0 - n)
    ELSE NatToString(n)

\* String(n).padStart(2, '0')
PadStart2(s) == IF Len(s) < 2 THEN <<"0">> \o s ELSE s

(***************************************************************************)
(* Dates                                                                   *)
(***************************************************************************)
MinutesPerHour == 60

HoursPerDay == 24

MinutesPerDay == MinutesPerHour * HoursPerDay

\* The last year a Date can represent in this model.
LastYear == 2033

\* MakeDay: the day number (days since 1970-01-01) of day d of month m
\* (0-based) of year y; m and d outside their range carry over.
DaysFromCivil(y, m, d) ==
    LET ym  == y + (m \div 12)
        mn  == m % 12
        yy  == IF mn <= 1 THEN ym - 1 ELSE ym
        era == yy \div 400
        yoe == yy - era * 400
        mp  == (mn + 10) % 12
        doy == (153 * mp + 2) \div 5
        doe == yoe * 365 + (yoe \div 4) - (yoe \div 100) + doy
    IN  era * 146097 + doe - 719468 + (d - 1)

\* The calendar date [year, month (0-based), date] of day number z.
CivilFromDays(z) ==
    LET zz  == z + 719468
        era == zz \div 146097
        doe == zz - era * 146097
        yoe == (doe - (doe \div 1460) + (doe \div 36524) - (doe \div 146096)) \div 365
        doy == doe - (365 * yoe + (yoe \div 4) - (yoe \div 100))
        mp  == (5 * doy + 2) \div 153
        d   == doy - ((153 * mp + 2) \div 5) + 1
        m   == IF mp < 10 THEN mp + 3 ELSE mp - 9
        y   == yoe + era * 400 + (IF m <= 2 THEN 1 ELSE 0)
    IN  [year |-> y, month |-> m - 1, date |-> d]

\* The largest time value of a Date.
MaxTime == DaysFromCivil(LastYear + 1, 0, 1) * MinutesPerDay - 1

\* TimeClip: a time value outside the representable range is NaN.
TimeClip(t) == IF IsNaN(t) \/ t > MaxTime \/ t < 0 - MaxTime THEN NaN ELSE t

\* MakeDate(MakeDay(y, m, d), MakeTime(h, mi)), clipped; NaN in, NaN out.
MakeDate(y, m, d, h, mi) ==
    IF IsNaN(y) \/ IsNaN(m) \/ IsNaN(d) \/ IsNaN(h) \/ IsNaN(mi) THEN NaN
    ELSE TimeClip(DaysFromCivil(y, m, d) * MinutesPerDay + h * MinutesPerHour + mi)

DayOf(t) == t \div MinutesPerDay

GetFullYear(t) == IF IsNaN(t) THEN NaN ELSE CivilFromDays(DayOf(t)).year

GetMonth(t) == IF IsNaN(t) THEN NaN ELSE CivilFromDays(DayOf(t)).month

GetDate(t) == IF IsNaN(t) THEN NaN ELSE CivilFromDays(DayOf(t)).date

GetHours(t) == IF IsNaN(t) THEN NaN ELSE (t % MinutesPerDay) \div MinutesPerHour

GetMinutes(t) == IF IsNaN(t) THEN NaN ELSE t % MinutesPerHour

\* Date.prototype.getDay: 0 = Sunday; 1970-01-01 was a Thursday.
GetDay(t) == IF IsNaN(t) THEN NaN ELSE (DayOf(t) + 4) % 7

\* Date.prototype.setDate(d): same year, month and time of day.
SetDate(t, d) ==
    IF IsNaN(t) THEN NaN
    ELSE MakeDate(GetFullYear(t), GetMonth(t), d, GetHours(t), GetMinutes(t))

\* A setMonth that clamps the day of month to the last day of month m.
SetMonthClamped(t, m) ==
    IF IsNaN(t) \/ IsNaN(m) THEN NaN
    ELSE LET y    == GetFullYear(t)
             last == DaysFromCivil(y, m + 1, 1) - DaysFromCivil(y, m, 1)
             d    == IF GetDate(t) > last THEN last ELSE GetDate(t)
         IN  MakeDate(y, m, d, GetHours(t), GetMinutes(t))

\* Date.prototype.setMonth(m): same year, day of month and time of day.
SetMonth(t, m) ==
    IF IsNaN(t) THEN NaN
    ELSE MakeDate(GetFullYear(t), m, GetDate(t), GetHours(t), GetMinutes(t))

\* Date.prototype.setFullYear(y): same month, day of month and time of day.
SetFullYear(t, y) ==
    IF IsNaN(t) THEN NaN
    ELSE MakeDate(y, GetMonth(t), GetDate(t), GetHours(t), GetMinutes(t))

(***************************************************************************)
(* Recurrence rules (Recurrence.parseRRule / formatRRule)                  *)
(***************************************************************************)
\* The empty rule object {}.  A rule's properties are optional; "extra"
\* holds the unrecognized keys, lower-cased, with their values.
EmptyRule ==
    [freq |-> None, count |-> None, until |-> None, interval |-> None,
     byDay |-> None, byMonthDay |-> None, byMonth |-> None, wkst |-> None,
     extra |-> <<>>]

\* The outcome of a call: a returned value or a raised error.
Returned(v) == [raised |-> FALSE, value |-> <<v>>, error |-> ""]

Raised(e) == [raised |-> TRUE, value |-> <<>>, error |-> e]

\* rrule.replace(/^RRULE:/i, '')
StripPrefix(s) ==
    IF Len(s) >= 6 /\ ToUpperCase(SubSeq(s, 1, 6)) = <<"R","R","U","L","E",":">>
    THEN SubSeq(s, 7, Len(s))
    ELSE s

\* Recurrence.parseRRuleDate: YYYYMMDD, YYYYMMDDTHHMMSS or YYYYMMDDTHHMMSSZ.
\* (The time zone is UTC, so the Z and the local form agree; seconds are
\* below the model's resolution.)  Any other text is not a date the Date
\* constructor reads (none of this model's texts is an ISO date): Invalid Date.
ParseRRuleDate(s) ==
    IF Len(s) = 8
    THEN MakeDate(ParseInt(Substring(s, 0, 4)), Sub(ParseInt(Substring(s, 4, 6)), 1),
                  ParseInt(Substring(s, 6, 8)), 0, 0)
    ELSE IF IndexOf(s, "T") # 0
    THEN LET sec == ParseInt(Substring(s, 13, 15))
         IN  IF IsNaN(sec) THEN NaN
             ELSE MakeDate(ParseInt(Substring(s, 0, 4)),
                           Sub(ParseInt(Substring(s, 4, 6)), 1),
                           ParseInt(Substring(s, 6, 8)),
                           ParseInt(Substring(s, 9, 11)),
                           Add(ParseInt(Substring(s, 11, 13)), sec \div 60))
    ELSE NaN

\* value.split(',').map(d => parseInt(d, 10))
ParseIntList(value) ==
    LET parts == Split(value, ",") IN [i \in DOMAIN parts |-> ParseInt(parts[i])]

\* rule[key] = value for an unrecognized key: a later value replaces an
\* earlier one of the same key.
PutExtra(extra, key, value) ==
    IF \E i \in DOMAIN extra : extra[i][1] = key
    THEN [i \in DOMAIN extra |-> IF extra[i][1] = key THEN <<key, value>> ELSE extra[i]]
    ELSE Append(extra, <<key, value>>)

\* The body of parts.forEach in parseRRule: one part of the rule text.
ParsePart(rule, part) ==
    LET kv       == Split(part, "=")
        key      == kv[1]
        hasValue == Len(kv) >= 2
        value    == IF hasValue THEN kv[2] ELSE <<>>
        upperKey == ToUpperCase(key)
    IN  IF Len(key) = 0 \/ ~hasValue \/ Len(value) = 0 THEN rule
        ELSE CASE upperKey = <<"F","R","E","Q">> ->
                    [rule EXCEPT !.freq = Some(ToUpperCase(value))]
               [] upperKey = <<"C","O","U","N","T">> ->
                    [rule EXCEPT !.count = Some(ParseInt(value))]
               [] upperKey = <<"U","N","T","I","L">> ->
                    [rule EXCEPT !.until = Some(ParseRRuleDate(value))]
               [] upperKey = <<"I","N","T","E","R","V","A","L">> ->
                    [rule EXCEPT !.interval = Some(ParseInt(value))]
               [] upperKey = <<"B","Y","D","A","Y">> ->
                    [rule EXCEPT !.byDay = Some(Split(value, ","))]
               [] upperKey = <<"B","Y","M","O","N","T","H","D","A","Y">> ->
                    [rule EXCEPT !.byMonthDay = Some(ParseIntList(value))]
               [] upperKey = <<"B","Y","M","O","N","T","H">> ->
                    [rule EXCEPT !.byMonth = Some(ParseIntList(value))]
               [] upperKey = <<"W","K","S","T">> ->
                    [rule EXCEPT !.wkst = Some(ToUpperCase(value))]
               [] OTHER ->
                    [rule EXCEPT !.extra = PutExtra(@, ToLowerCase(upperKey), value)]

RECURSIVE ParseParts(_, _)
ParseParts(rule, parts) ==
    IF Len(parts) = 0 THEN rule
    ELSE ParseParts(ParsePart(rule, parts[1]), Tail(parts))

\* A part that parseRRule reads: a non-empty key, an '=', a non-empty value.
WellFormedPart(part) ==
    LET i == IndexOf(part, "=")
    IN  i > 1 /\ i < Len(part) /\ part[i + 1] # "="

\* A parseRRule that rejects a text with a malformed part.
ParseRRuleStrict(rrule) ==
    IF ~IsSome(rrule) \/ Len(Val(rrule)) = 0 THEN Returned(None)
    ELSE LET parts == Split(StripPrefix(Val(rrule)), ";")
         IN  IF \E i \in DOMAIN parts : ~WellFormedPart(parts[i])
             THEN Raised("FormatError")
             ELSE Returned(Some(ParseParts(EmptyRule, parts)))

\* Recurrence.parseRRule.  The argument is an optional string; the result is
\* the rule, or None for null.  The function has no throw statement.
ParseRRule(rrule) ==
    IF ~IsSome(rrule) \/ Len(Val(rrule)) = 0 THEN Returned(None)
    ELSE Returned(Some(ParseParts(EmptyRule, Split(StripPrefix(Val(rrule)), ";"))))

\* Recurrence.formatRRuleDate: YYYYMMDDTHHMMSSZ from the UTC fields.
FormatRRuleDate(date) ==
    NumToString(GetFullYear(date))
      \o PadStart2(NumToString(Add(GetMonth(date), 1)))
      \o PadStart2(NumToString(GetDate(date)))
      \o <<"T">>
      \o PadStart2(NumToString(GetHours(date)))
      \o PadStart2(NumToString(GetMinutes(date)))
      \o PadStart2(NumToString(IF IsNaN(date) THEN NaN ELSE 0))
      \o <<"Z">>

\* array.join(',') of an array of numbers.
JoinNumbers(ns) == Join([i \in DOMAIN ns |-> NumToString(ns[i])], ",")

\* The parts formatRRule pushes for a rule object, in order.
FormatParts(rule) ==
    (IF IsSome(rule.freq) /\ Len(Val(rule.freq)) > 0
       THEN << <<"F","R","E","Q","=">> \o ToUpperCase(Val(rule.freq)) >> ELSE <<>>)
    \o (IF IsSome(rule.count) /\ Truthy(Val(rule.count))
       THEN << <<"C","O","U","N","T","=">> \o NumToString(Val(rule.count)) >> ELSE <<>>)
    \o (IF IsSome(rule.until)
       THEN << <<"U","N","T","I","L","=">> \o FormatRRuleDate(Val(rule.until)) >> ELSE <<>>)
    \o (IF IsSome(rule.interval) /\ Truthy(Val(rule.interval)) /\ Gt(Val(rule.interval), 1)
       THEN << <<"I","N","T","E","R","V","A","L","=">> \o NumToString(Val(rule.interval)) >>
       ELSE <<>>)
    \o (IF IsSome(rule.byDay) /\ Len(Val(rule.byDay)) > 0
       THEN << <<"B","Y","D","A","Y","=">> \o Join(Val(rule.byDay), ",") >> ELSE <<>>)
    \o (IF IsSome(rule.byMonthDay) /\ Len(Val(rule.byMonthDay)) > 0
       THEN << <<"B","Y","M","O","N","T","H","D","A","Y","=">>
                 \o JoinNumbers(Val(rule.byMonthDay)) >> ELSE <<>>)
    \o (IF IsSome(rule.byMonth) /\ Len(Val(rule.byMonth)) > 0
       THEN << <<"B","Y","M","O","N","T","H","=">> \o JoinNumbers(Val(rule.byMonth)) >>
       ELSE <<>>)
    \o (IF IsSome(rule.wkst) /\ Len(Val(rule.wkst)) > 0
       THEN << <<"W","K","S","T","=">> \o Val(rule.wkst) >> ELSE <<>>)

\* Recurrence.formatRRule.  The argument is a rule object or None (null):
\* reading rule.freq of null raises a TypeError.
FormatRRule(rule) ==
    IF ~IsSome(rule) THEN Raised("TypeError")
    ELSE LET parts == FormatParts(Val(rule))
         IN  Returned(IF Len(parts) > 0
                      THEN <<"R","R","U","L","E",":">> \o Join(parts, ";")
                      ELSE <<>>)

(***************************************************************************)
(* Recurrence expansion (Recurrence.expandRecurrence)                      *)
(***************************************************************************)
\* maxOccurrences = 730, the default of expandRecurrence's last parameter.
DefaultMaxOccurrences == 730

\* Recurrence.getDayOfWeekCode: days[dayOfWeek]; days[NaN] is undefined.
GetDayOfWeekCode(dayOfWeek) ==
    IF IsNaN(dayOfWeek) THEN None
    ELSE Some(<< <<"S","U">>, <<"M","O">>, <<"T","U">>, <<"W","E">>,
                 <<"T","H">>, <<"F","R">>, <<"S","A">> >>[dayOfWeek + 1])

\* Array.prototype.includes
Includes(arr, v) == \E i \in DOMAIN arr : arr[i] = v

\* A matchesRule that leaves the BYDAY filter out.
MatchesRuleWithoutByDay(date, rrule) ==
    /\ (IsSome(rrule.byMonth) /\ Len(Val(rrule.byMonth)) > 0)
          => Includes(Val(rrule.byMonth), Add(GetMonth(date), 1))
    /\ (IsSome(rrule.byMonthDay) /\ Len(Val(rrule.byMonthDay)) > 0)
          => Includes(Val(rrule.byMonthDay), GetDate(date))

\* A matchesRule with OR semantics: one matching filter is enough.
MatchesRuleAnyFilter(date, rrule) ==
    LET byMonth    == IsSome(rrule.byMonth) /\ Len(Val(rrule.byMonth)) > 0
        byMonthDay == IsSome(rrule.byMonthDay) /\ Len(Val(rrule.byMonthDay)) > 0
        byDay      == IsSome(rrule.byDay) /\ Len(Val(rrule.byDay)) > 0
        code       == GetDayOfWeekCode(GetDay(date))
    IN  \/ ~byMonth /\ ~byMonthDay /\ ~byDay
        \/ byMonth /\ Includes(Val(rrule.byMonth), Add(GetMonth(date), 1))
        \/ byMonthDay /\ Includes(Val(rrule.byMonthDay), GetDate(date))
        \/ byDay /\ IsSome(code) /\ Includes(Val(rrule.byDay), Val(code))

\* Recurrence.matchesRule: every filter that is present and non-empty must
\* contain the date's month, day of month, weekday code.
MatchesRule(date, rrule) ==
    /\ (IsSome(rrule.byMonth) /\ Len(Val(rrule.byMonth)) > 0)
          => Includes(Val(rrule.byMonth), Add(GetMonth(date), 1))
    /\ (IsSome(rrule.byMonthDay) /\ Len(Val(rrule.byMonthDay)) > 0)
          => Includes(Val(rrule.byMonthDay), GetDate(date))
    /\ (IsSome(rrule.byDay) /\ Len(Val(rrule.byDay)) > 0)
          => LET code == GetDayOfWeekCode(GetDay(date))
             IN  IsSome(code) /\ Includes(Val(rrule.byDay), Val(code))

\* A getNextOccurrence whose daily step leaves the interval out.
GetNextOccurrenceDailyByOne(current, freq, interval) ==
    CASE freq = <<"W","E","E","K","L","Y">> ->
            SetDate(current, Add(GetDate(current), 7 * interval))
      [] freq = <<"M","O","N","T","H","L","Y">> ->
            SetMonth(current, Add(GetMonth(current), interval))
      [] freq = <<"Y","E","A","R","L","Y">> ->
            SetFullYear(current, Add(GetFullYear(current), interval))
      [] OTHER ->
            SetDate(current, Add(GetDate(current), 1))

\* Recurrence.getNextOccurrence: one step of freq * interval from current.
GetNextOccurrence(current, freq, interval) ==
    CASE freq = <<"D","A","I","L","Y">> ->
            SetDate(current, Add(GetDate(current), interval))
      [] freq = <<"W","E","E","K","L","Y">> ->
            SetDate(current, Add(GetDate(current), 7 * interval))
      [] freq = <<"M","O","N","T","H","L","Y">> ->
            SetMonth(current, Add(GetMonth(current), interval))
      [] freq = <<"Y","E","A","R","L","Y">> ->
            SetFullYear(current, Add(GetFullYear(current), interval))
      [] OTHER ->
            SetDate(current, Add(GetDate(current), interval))

\* An event as expandRecurrence reads it.  recurrence is absent
\* (kind "none"), a string (kind "string") or a rule object (kind "object");
\* rrule is an optional string.
NoRecurrence == [kind |-> "none", text |-> <<>>, rule |-> EmptyRule]

RecurrenceText(t) == [kind |-> "string", text |-> t, rule |-> EmptyRule]

RecurrenceObject(r) == [kind |-> "object", text |-> <<>>, rule |-> r]

\* !event.recurrence: undefined and the empty string are falsy.
RecurrenceFalsy(rec) == rec.kind = "none" \/ (rec.kind = "string" /\ Len(rec.text) = 0)

\* !event.rrule
RruleFalsy(rr) == ~IsSome(rr) \/ Len(Val(rr)) = 0

\* The rule expandRecurrence works with (lines 110-112), None for null.
ResolveRule(event) ==
    IF event.recurrence.kind = "string"
    THEN Val(ParseRRule(Some(event.recurrence.text)).value)
    ELSE IF event.recurrence.kind = "object" THEN Some(event.recurrence.rule)
    ELSE Val(ParseRRule(event.rrule).value)

\* An element of the returned array: the event itself ([event]) ...
EventItself(event) ==
    [uid |-> event.uid, start |-> event.start, end |-> event.end,
     recurrence |-> event.recurrence, rrule |-> event.rrule,
     isRecurring |-> FALSE, recurringEventId |-> None, recurrenceDate |-> None]

\* ... or the occurrence built at lines 146-154.
Occurrence(event, currentDate, eventDuration) ==
    [uid |-> event.uid \o <<"_">> \o NumToString(currentDate),
     start |-> currentDate,
     end |-> IF Truthy(eventDuration) THEN Some(TimeClip(Add(currentDate, eventDuration)))
             ELSE None,
     recurrence |-> event.recurrence, rrule |-> event.rrule,
     isRecurring |-> TRUE, recurringEventId |-> Some(event.uid),
     recurrenceDate |-> Some(currentDate)]

\* eventDuration = event.end ? new Date(event.end) - startDate : 0
EventDuration(event) ==
    IF IsSome(event.end) THEN Sub(Val(event.end), event.start) ELSE 0

\* interval = rrule.interval || 1
IntervalOf(rrule) ==
    IF IsSome(rrule.interval) /\ Truthy(Val(rrule.interval)) THEN Val(rrule.interval) ELSE 1

\* maxCount = rrule.count || maxOccurrences, maxOccurrences defaulting to 730
MaxCountOf(rrule, maxOcc) ==
    IF IsSome(rrule.count) /\ Truthy(Val(rrule.count)) THEN Val(rrule.count)
    ELSE IF IsSome(maxOcc) THEN Val(maxOcc) ELSE DefaultMaxOccurrences

\* expandedRangeStart = rangeStart ? rangeStart - eventDuration : null
ExpandedRangeStart(rangeStart, eventDuration) ==
    IF IsSome(rangeStart) THEN Some(TimeClip(Sub(Val(rangeStart), eventDuration))) ELSE None

\* The early returns without the test of rrule.freq.
NotRecurringUnlessNull(event) ==
    \/ RecurrenceFalsy(event.recurrence) /\ RruleFalsy(event.rrule)
    \/ ~IsSome(ResolveRule(event))

\* The early returns of lines 106-116: no rule, a null rule, a rule with no freq.
NotRecurring(event) ==
    \/ RecurrenceFalsy(event.recurrence) /\ RruleFalsy(event.rrule)
    \/ ~IsSome(ResolveRule(event))
    \/ ~IsSome(Val(ResolveRule(event)).freq)
    \/ Len(Val(Val(ResolveRule(event)).freq)) = 0

(***************************************************************************)
(* State                                                                   *)
(***************************************************************************)
VARIABLES
    \* Recurrence.expandRecurrence: its arguments ...
    event, rangeStart, rangeEnd, maxOccurrences,
    \* ... its position ("call", "loop", "done"), its locals and its result.
    pc, currentDate, count, occurrences,
    \* Recurrence.formatRRule / parseRRule: the rule object or the text a run
    \* starts from, its position ("rule", "text", "parsed", "done"), the text
    \* (formatted, or given), the outcome of parseRRule on it and the outcome
    \* of formatRRule on the parsed rule.
    ruleIn, fromRule, stage, ruleText, parsed, reformatted,
    \* CalendarCore: this.events, the last operation called and its result.
    events, call, result

expandVars == <<event, rangeStart, rangeEnd, maxOccurrences,
                pc, currentDate, count, occurrences>>

rruleVars == <<ruleIn, fromRule, stage, ruleText, parsed, reformatted>>

storeVars == <<events, call, result>>

vars == <<expandVars, rruleVars, storeVars>>

(***************************************************************************)
(* The inputs of the expansion                                             *)
(***************************************************************************)
\* The largest COUNT of a rule.
MaxCount == 3

DAILY == <<"D","A","I","L","Y">>

WEEKLY == <<"W","E","E","K","L","Y">>

MONTHLY == <<"M","O","N","T","H","L","Y">>

YEARLY == <<"Y","E","A","R","L","Y">>

\* Wednesday 2024-01-31 10:00 and Thursday 2024-02-29 10:00.
Starts == {MakeDate(2024, 0, 31, 10, 0), MakeDate(2024, 1, 29, 10, 0)}

\* event.end - event.start in minutes; None for an event without end. An
\* occurrence of 30 minutes at 10:00 ends at the rangeStart of 10:30.
Durations == {None, Some(0), Some(30), Some(60)}

Untils == {None, Some(MakeDate(2024, 2, 7, 10, 0))}

RangeStarts == {None, Some(MakeDate(2024, 1, 1, 10, 30))}

RangeEnds == {None, Some(MakeDate(2024, 2, 7, 10, 0))}

ByDays == {None, Some(<< <<"W","E">> >>), Some(<< <<"M","O">>, <<"T","H">> >>)}

ByMonthDays == {None, Some(<<31>>)}

ByMonths == {None, Some(<<2, 3>>)}

Counts == {None} \cup {Some(n) : n \in 1..MaxCount}

Intervals == {None, Some(1), Some(2)}

\* Rule objects without filters ...
PlainRules ==
    {[EmptyRule EXCEPT !.freq = Some(f), !.interval = i, !.count = c, !.until = u] :
        f \in {DAILY, WEEKLY, MONTHLY, YEARLY}, i \in Intervals, c \in Counts, u \in Untils}

\* ... and with BYDAY / BYMONTHDAY / BYMONTH filters.
FilteredRules ==
    {[EmptyRule EXCEPT !.freq = Some(f), !.count = c,
                       !.byDay = bd, !.byMonthDay = bmd, !.byMonth = bm] :
        f \in {DAILY, WEEKLY, MONTHLY, YEARLY}, c \in {None, Some(2)},
        bd \in ByDays, bmd \in ByMonthDays, bm \in ByMonths}

Rules == PlainRules \cup FilteredRules

\* key=value
Pair(key, value) == key \o <<"=">> \o value

FREQ == <<"F","R","E","Q">>

COUNT == <<"C","O","U","N","T">>

\* Rule texts with a FREQ: "FREQ=DAILY;COUNT=3", "RRULE:FREQ=WEEKLY;COUNT=3",
\* "freq=monthly;count=3", "FREQ=DAILY;COUNT;INTERVAL=2;COUNT=2".
RecurringTexts ==
    { Join(<<Pair(FREQ, DAILY), Pair(COUNT, <<"3">>)>>, ";"),
      <<"R","R","U","L","E",":">> \o Join(<<Pair(FREQ, WEEKLY), Pair(COUNT, <<"3">>)>>, ";"),
      Join(<<Pair(ToLowerCase(FREQ), ToLowerCase(MONTHLY)),
             Pair(ToLowerCase(COUNT), <<"3">>)>>, ";"),
      Join(<<Pair(FREQ, DAILY), COUNT, Pair(<<"I","N","T","E","R","V","A","L">>, <<"2">>),
             Pair(COUNT, <<"2">>)>>, ";") }

\* Rule texts without a usable FREQ: "", "FREQ", "FREQ=", "=DAILY",
\* "COUNT=3", "FREQ;COUNT=3", "RRULE:", "FREQ==DAILY".
FreqlessTexts ==
    { <<>>, FREQ, Pair(FREQ, <<>>), Pair(<<>>, DAILY), Pair(COUNT, <<"3">>),
      Join(<<FREQ, Pair(COUNT, <<"3">>)>>, ";"), <<"R","R","U","L","E",":">>,
      FREQ \o <<"=","=">> \o DAILY }

\* Rule objects without a usable freq: {}, {count: 3}, {freq: '', count: 3}.
FreqlessRules ==
    { EmptyRule, [EmptyRule EXCEPT !.count = Some(3)],
      [EmptyRule EXCEPT !.freq = Some(<<>>), !.count = Some(3)] }

\* The ways an event carries its rule: as an object in recurrence ...
ObjectEvents ==
    {[uid |-> <<"e","v">>, start |-> s,
      end |-> IF IsSome(d) THEN Some(s + Val(d)) ELSE None,
      recurrence |-> RecurrenceObject(r), rrule |-> None] :
        s \in Starts, d \in Durations, r \in Rules \cup FreqlessRules}

\* ... as text in recurrence or in rrule, or not at all.
TextEvents ==
    {[uid |-> <<"e","v">>, start |-> s, end |-> Some(s + 60),
      recurrence |-> rec, rrule |-> rr] :
        s \in Starts,
        rec \in {NoRecurrence} \cup {RecurrenceText(t) : t \in RecurringTexts \cup FreqlessTexts},
        rr \in {None} \cup {Some(t) : t \in RecurringTexts \cup FreqlessTexts}}

ExpandEvents == ObjectEvents \cup TextEvents

\* The maxOccurrences argument: 2, or omitted (730) for a rule that gives
\* its own count.
MaxOccurrencesOf(e) ==
    {Some(2)} \cup
    (IF ~NotRecurring(e) /\ IsSome(Val(ResolveRule(e)).count) THEN {None} ELSE {})

\* An empty store, nothing called.
NoCall == [op |-> "none", event |-> [uid |-> <<>>, start |-> None, end |-> None]]

StoreIdle == events = <<>> /\ call = NoCall /\ result = <<>>

\* No expandRecurrence call.
ExpandIdle ==
    /\ event = [uid |-> <<>>, start |-> 0, end |-> None,
                recurrence |-> NoRecurrence, rrule |-> None]
    /\ rangeStart = None /\ rangeEnd = None /\ maxOccurrences = None
    /\ pc = "idle" /\ currentDate = NaN /\ count = 0 /\ occurrences = <<>>

\* No formatRRule / parseRRule run.
RRuleIdle ==
    /\ ruleIn = EmptyRule /\ fromRule = FALSE /\ stage = "idle"
    /\ ruleText = <<>> /\ parsed = Returned(None) /\ reformatted = Returned(<<>>)

(***************************************************************************)
(* Recurrence.expandRecurrence as a state machine                          *)
(***************************************************************************)
InitExpand ==
    /\ event \in ExpandEvents
    /\ rangeStart \in RangeStarts
    /\ rangeEnd \in RangeEnds
    /\ maxOccurrences \in MaxOccurrencesOf(event)
    /\ pc = "call"
    /\ currentDate = NaN
    /\ count = 0
    /\ occurrences = <<>>
    /\ RRuleIdle
    /\ StoreIdle

\* Lines 106-128: the early returns, then the locals of the walk.
ExpandCall ==
    /\ pc = "call"
    /\ IF NotRecurring(event)
       THEN /\ occurrences' = <<EventItself(event)>>
            /\ pc' = "done"
            /\ UNCHANGED <<currentDate, count>>
       ELSE /\ currentDate' = event.start
            /\ count' = 0
            /\ occurrences' = <<>>
            /\ pc' = "loop"
    /\ UNCHANGED <<event, rangeStart, rangeEnd, maxOccurrences, rruleVars, storeVars>>

\* A loop whose upper bounds are exclusive: it stops at a candidate equal to
\* until or to rangeEnd.
LoopStepExclusive ==
    /\ pc = "loop"
    /\ LET rrule    == Val(ResolveRule(event))
           duration == EventDuration(event)
           ers      == ExpandedRangeStart(rangeStart, duration)
           inRange  == ~IsSome(ers) \/ Ge(currentDate, Val(ers))
           emit     == inRange /\ MatchesRule(currentDate, rrule)
           occs     == IF emit
                       THEN Append(occurrences, Occurrence(event, currentDate, duration))
                       ELSE occurrences
           next     == GetNextOccurrence(currentDate, Val(rrule.freq), IntervalOf(rrule))
       IN  IF ~Lt(count, MaxCountOf(rrule, maxOccurrences))
           THEN pc' = "done" /\ UNCHANGED <<currentDate, count, occurrences>>
           ELSE IF IsSome(rrule.until) /\ Ge(currentDate, Val(rrule.until))
           THEN pc' = "done" /\ UNCHANGED <<currentDate, count, occurrences>>
           ELSE IF IsSome(rangeEnd) /\ Ge(currentDate, Val(rangeEnd))
           THEN pc' = "done" /\ UNCHANGED <<currentDate, count, occurrences>>
           ELSE /\ occurrences' = occs
                /\ count' = IF emit THEN count + 1 ELSE count
                /\ currentDate' = next
                /\ pc' = IF Len(occs) > 0 /\ ~IsNaN(next) /\ next = occs[Len(occs)].start
                         THEN "done" ELSE "loop"
    /\ UNCHANGED <<event, rangeStart, rangeEnd, maxOccurrences, rruleVars, storeVars>>

\* Lines 130-167: the test of the while loop and one iteration of its body.
\* An iteration on an Invalid Date that emits nothing leaves every local as
\* it was: the loop runs on from the same state.
LoopStep ==
    /\ pc = "loop"
    /\ LET rrule    == Val(ResolveRule(event))
           duration == EventDuration(event)
           ers      == ExpandedRangeStart(rangeStart, duration)
           inRange  == ~IsSome(ers) \/ Ge(currentDate, Val(ers))
           emit     == inRange /\ MatchesRule(currentDate, rrule)
           occs     == IF emit
                       THEN Append(occurrences, Occurrence(event, currentDate, duration))
                       ELSE occurrences
           next     == GetNextOccurrence(currentDate, Val(rrule.freq), IntervalOf(rrule))
       IN  IF ~Lt(count, MaxCountOf(rrule, maxOccurrences))
           THEN pc' = "done" /\ UNCHANGED <<currentDate, count, occurrences>>
           ELSE IF IsSome(rrule.until) /\ Gt(currentDate, Val(rrule.until))
           THEN pc' = "done" /\ UNCHANGED <<currentDate, count, occurrences>>
           ELSE IF IsSome(rangeEnd) /\ Gt(currentDate, Val(rangeEnd))
           THEN pc' = "done" /\ UNCHANGED <<currentDate, count, occurrences>>
           ELSE /\ occurrences' = occs
                /\ count' = IF emit THEN count + 1 ELSE count
                /\ currentDate' = next
                /\ pc' = IF Len(occs) > 0 /\ ~IsNaN(next) /\ next = occs[Len(occs)].start
                         THEN "done" ELSE "loop"
    /\ UNCHANGED <<event, rangeStart, rangeEnd, maxOccurrences, rruleVars, storeVars>>

NextExpand == ExpandCall \/ LoopStep

SpecExpand == InitExpand /\ [][NextExpand]_vars

\* The calls whose termination is examined: the weekly, monthly and yearly
\* rules with filters, for an event without end.
InitWalk ==
    /\ InitExpand
    /\ event.start = MakeDate(2024, 0, 31, 10, 0)
    /\ ~IsSome(event.end)
    /\ event.recurrence.kind = "object"
    /\ event.recurrence.rule \in FilteredRules
    /\ event.recurrence.rule.freq # Some(DAILY)
    /\ maxOccurrences = Some(2)

\* The walk is one synchronous call: it keeps running while it can.
FairExpand == InitWalk /\ [][NextExpand]_vars /\ WF_vars(NextExpand)

(***************************************************************************)
(* Properties of the expansion                                             *)
(***************************************************************************)
\* The rule of a recurring event, as the walk uses it.
WalkRule == Val(ResolveRule(event))

Walking == pc # "call" /\ ~NotRecurring(event)

Finished == pc = "done" /\ ~NotRecurring(event)

NoFilters(r) == ~IsSome(r.byDay) /\ ~IsSome(r.byMonthDay) /\ ~IsSome(r.byMonth)

\* interval k of a rule, 1 when the rule gives none.
StepOf(r) == IF IsSome(r.interval) THEN Val(r.interval) ELSE 1

DateOfMonth(t) == CivilFromDays(DayOf(t)).date

\* The months since year 0 of the month t lies in.
MonthIndex(t) == CivilFromDays(DayOf(t)).year * 12 + CivilFromDays(DayOf(t)).month

\* The number of days of the month with that index.
DaysInMonth(idx) == DaysFromCivil(0, idx + 1, 1) - DaysFromCivil(0, idx, 1)

\* Sunday = 0.
Weekday(t) == (DayOf(t) + 4) % 7

WeekdayCodes == << <<"S","U">>, <<"M","O">>, <<"T","U">>, <<"W","E">>,
                   <<"T","H">>, <<"F","R">>, <<"S","A">> >>

\* C1: expandRecurrence terminates for every event, rule and range: the
\* walk reaches a stop condition after finitely many steps.
C1_WalkTerminates == <>(pc = "done")

\* C2: expandRecurrence never returns more than maxOccurrences occurrences
\* (730 when the argument is omitted), whatever the rule's count is.
C2_AtMostMaxOccurrences ==
    Len(occurrences) <=
        (IF IsSome(maxOccurrences) THEN Val(maxOccurrences) ELSE DefaultMaxOccurrences)

\* C3: a rule {freq: DAILY, interval: k, count: n} (k, n >= 1) without
\* filters and until, expanded without rangeStart and rangeEnd, gives
\* exactly n occurrences, the first at event.start, each next one exactly
\* k days after the previous one.
C3_DailyCountExact ==
    (/\ Finished
     /\ WalkRule.freq = Some(DAILY)
     /\ IsSome(WalkRule.count) /\ Val(WalkRule.count) >= 1
     /\ StepOf(WalkRule) >= 1
     /\ NoFilters(WalkRule) /\ ~IsSome(WalkRule.until)
     /\ ~IsSome(rangeStart) /\ ~IsSome(rangeEnd))
    => /\ Len(occurrences) = Val(WalkRule.count)
       /\ occurrences[1].start = event.start
       /\ \A i \in 1..(Len(occurrences) - 1) :
             occurrences[i + 1].start =
                 occurrences[i].start + StepOf(WalkRule) * MinutesPerDay

C3_Witness ==
    /\ Finished
    /\ WalkRule.freq = Some(DAILY) /\ WalkRule.count = Some(3)
    /\ WalkRule.interval = Some(2)
    /\ NoFilters(WalkRule) /\ ~IsSome(WalkRule.until)
    /\ ~IsSome(rangeStart) /\ ~IsSome(rangeEnd)
    /\ Len(occurrences) = 3
    /\ occurrences[3].start = event.start + 4 * MinutesPerDay

\* C4: for every occurrence o of a recurring event whose end is set
\* (end = start included), o.end is set and o.end - o.start equals
\* event.end - event.start.
C4_DurationPreserved ==
    (Walking /\ IsSome(event.end))
    => \A i \in DOMAIN occurrences :
          /\ IsSome(occurrences[i].end)
          /\ Val(occurrences[i].end) - occurrences[i].start = Val(event.end) - event.start

\* next is prev stepped by `months` months with a day of month that the
\* target month lacks rolling over into the following month.
RolledOver(prev, next, months) ==
    LET target == MonthIndex(prev) + months
    IN  /\ next % MinutesPerDay = prev % MinutesPerDay
        /\ IF DateOfMonth(prev) <= DaysInMonth(target)
           THEN MonthIndex(next) = target /\ DateOfMonth(next) = DateOfMonth(prev)
           ELSE /\ MonthIndex(next) = target + 1
                /\ DateOfMonth(next) = DateOfMonth(prev) - DaysInMonth(target)

\* C5: in a MONTHLY or YEARLY walk without filters, a candidate whose day
\* of month does not exist in the target month is neither skipped nor
\* clamped: it rolls over into the following month, and the next candidate
\* is stepped from the rolled-over date; so three occurrences of
\* FREQ=MONTHLY anchored on the 31st never are the 31st of three
\* consecutive months.
C5_MonthRollOver ==
    (Walking /\ NoFilters(WalkRule) /\ WalkRule.freq \in {Some(MONTHLY), Some(YEARLY)})
    => /\ \A i \in 1..(Len(occurrences) - 1) :
             RolledOver(occurrences[i].start, occurrences[i + 1].start,
                        IF WalkRule.freq = Some(MONTHLY)
                        THEN StepOf(WalkRule) ELSE 12 * StepOf(WalkRule))
       /\ (/\ WalkRule.freq = Some(MONTHLY) /\ StepOf(WalkRule) = 1
           /\ Len(occurrences) >= 3 /\ DateOfMonth(event.start) = 31)
          => ~(/\ occurrences[1].start = event.start
               /\ DateOfMonth(occurrences[2].start) = 31
               /\ DateOfMonth(occurrences[3].start) = 31
               /\ MonthIndex(occurrences[2].start) = MonthIndex(event.start) + 1
               /\ MonthIndex(occurrences[3].start) = MonthIndex(event.start) + 2)

\* January 31st, then March 2nd (2024 is a leap year), then April 2nd.
C5_Witness ==
    /\ Finished /\ NoFilters(WalkRule)
    /\ WalkRule.freq = Some(MONTHLY) /\ WalkRule.count = Some(3) /\ StepOf(WalkRule) = 1
    /\ Len(occurrences) = 3
    /\ DateOfMonth(occurrences[1].start) = 31
    /\ MonthIndex(occurrences[2].start) = MonthIndex(event.start) + 2
    /\ DateOfMonth(occurrences[2].start) = 2
    /\ MonthIndex(occurrences[3].start) = MonthIndex(event.start) + 3
    /\ DateOfMonth(occurrences[3].start) = 2

OnAnchorWeekday ==
    \A i \in DOMAIN occurrences : Weekday(occurrences[i].start) = Weekday(event.start)

\* The BYDAY list lacks the weekday of event.start.
ByDayOmitsAnchor ==
    /\ IsSome(WalkRule.byDay) /\ Len(Val(WalkRule.byDay)) > 0
    /\ ~Includes(Val(WalkRule.byDay), WeekdayCodes[Weekday(event.start) + 1])

\* C6 as stated: for FREQ=WEEKLY with interval k every occurrence falls on
\* the weekday of event.start and consecutive occurrences are exactly 7k
\* days apart; with COUNT=n and no filters exactly n occurrences are
\* returned; a BYDAY list that omits the anchor's weekday yields none.
C6_WeeklyAsStated ==
    (Finished /\ WalkRule.freq = Some(WEEKLY))
    => /\ OnAnchorWeekday
       /\ \A i \in 1..(Len(occurrences) - 1) :
             occurrences[i + 1].start =
                 occurrences[i].start + 7 * StepOf(WalkRule) * MinutesPerDay
       /\ (IsSome(WalkRule.count) /\ NoFilters(WalkRule))
             => Len(occurrences) = Val(WalkRule.count)
       /\ ByDayOmitsAnchor => Len(occurrences) = 0

\* C6 as amended: every occurrence falls on the weekday of event.start;
\* consecutive occurrences are a positive multiple of 7k days apart,
\* exactly 7k days when the rule has no BYMONTHDAY or BYMONTH filter; with
\* COUNT=n, no filters, no until and no rangeEnd exactly n occurrences are
\* returned; a BYDAY list that omits the anchor's weekday yields none.
C6_Weekly ==
    (Walking /\ WalkRule.freq = Some(WEEKLY))
    => /\ OnAnchorWeekday
       /\ \A i \in 1..(Len(occurrences) - 1) :
             LET gap == occurrences[i + 1].start - occurrences[i].start
                 week == 7 * StepOf(WalkRule) * MinutesPerDay
             IN  /\ gap > 0 /\ gap % week = 0
                 /\ (~IsSome(WalkRule.byMonthDay) /\ ~IsSome(WalkRule.byMonth))
                       => gap = week
       /\ (/\ pc = "done" /\ IsSome(WalkRule.count) /\ NoFilters(WalkRule)
           /\ ~IsSome(WalkRule.until) /\ ~IsSome(rangeEnd))
             => Len(occurrences) = Val(WalkRule.count)
       /\ ByDayOmitsAnchor => Len(occurrences) = 0

\* BYDAY=MO,TH anchored on a Thursday: two Thursdays a week apart, no Monday.
C6_Witness ==
    /\ Finished /\ WalkRule.freq = Some(WEEKLY)
    /\ WalkRule.byDay = Some(<< <<"M","O">>, <<"T","H">> >>)
    /\ ~IsSome(WalkRule.byMonthDay) /\ ~IsSome(WalkRule.byMonth)
    /\ Weekday(event.start) = 4
    /\ Len(occurrences) = 2
    /\ occurrences[2].start = event.start + 7 * MinutesPerDay

\* The event carries no rule, or one without a usable freq.
NoUsableFreq ==
    \/ /\ event.recurrence.kind = "none"
       /\ event.rrule \in {None} \cup {Some(t) : t \in FreqlessTexts}
    \/ /\ event.recurrence.kind = "string"
       /\ event.recurrence.text \in FreqlessTexts
    \/ /\ event.recurrence.kind = "object"
       /\ event.recurrence.rule \in FreqlessRules

\* C9: for an event with no rule, or with a rule (text in recurrence or
\* rrule, or an object) that has no usable freq, the walk never starts and
\* expandRecurrence returns [event], the event itself, whatever the range.
C9_NoRuleReturnsEvent ==
    (NoUsableFreq /\ pc # "call")
    => /\ pc = "done"
       /\ Len(occurrences) = 1
       /\ occurrences[1].uid = event.uid
       /\ occurrences[1].start = event.start
       /\ occurrences[1].end = event.end
       /\ ~occurrences[1].isRecurring

\* Reached for a malformed text ("FREQ=") with a query range.
C9_Witness ==
    /\ pc = "done"
    /\ event.recurrence.kind = "string" /\ event.recurrence.text = Pair(FREQ, <<>>)
    /\ IsSome(event.rrule) /\ IsSome(rangeStart) /\ IsSome(rangeEnd)
    /\ Len(occurrences) = 1 /\ ~occurrences[1].isRecurring

(***************************************************************************)
(* Recurrence.formatRRule and parseRRule as a state machine: a rule object *)
(* is formatted, the text parsed, the parsed rule formatted again; or a    *)
(* given text is parsed and the parsed rule formatted.                     *)
(***************************************************************************)
MO == <<"M","O">>

WE == <<"W","E">>

\* Rule objects built from the supported fields, each present or absent.
FormatRules ==
    {[EmptyRule EXCEPT !.freq = f, !.count = c, !.until = u, !.interval = i,
                       !.byDay = bd, !.byMonthDay = bmd, !.byMonth = bm, !.wkst = w] :
        f \in {None, Some(DAILY), Some(ToLowerCase(WEEKLY))},
        c \in {None, Some(3), Some(12)},
        u \in {None, Some(MakeDate(2024, 2, 7, 10, 30))},
        i \in Intervals,
        bd \in {None, Some(<<MO, WE>>)},
        bmd \in {None, Some(<<15>>), Some(<<1, 0 - 1>>)},
        bm \in ByMonths,
        w \in {None, Some(MO), Some(ToLowerCase(MO))}}

\* Rule texts with well-formed and malformed parts:
\* "FREQ=DAILY;COUNT=;INTERVAL=2", "FREQ=WEEKLY;=5;BYDAY=MO,WE",
\* "FREQ=DAILY;X-FOO=bar;UNTIL=20240307T103000Z;x-foo=baz",
\* "FREQ=MONTHLY;BYMONTHDAY=1,15;BYMONTH=2;WKST=mo;COUNT=x".
MixedTexts ==
    { Join(<<Pair(FREQ, DAILY), Pair(COUNT, <<>>),
             Pair(<<"I","N","T","E","R","V","A","L">>, <<"2">>)>>, ";"),
      Join(<<Pair(FREQ, WEEKLY), Pair(<<>>, <<"5">>),
             Pair(<<"B","Y","D","A","Y">>, Join(<<MO, WE>>, ","))>>, ";"),
      Join(<<Pair(FREQ, DAILY), Pair(<<"X","-","F","O","O">>, <<"b","a","r">>),
             Pair(<<"U","N","T","I","L">>,
                  <<"2","0","2","4","0","3","0","7","T","1","0","3","0","0","0","Z">>),
             Pair(<<"x","-","f","o","o">>, <<"b","a","z">>)>>, ";"),
      Join(<<Pair(FREQ, MONTHLY),
             Pair(<<"B","Y","M","O","N","T","H","D","A","Y">>, <<"1",",","1","5">>),
             Pair(<<"B","Y","M","O","N","T","H">>, <<"2">>),
             Pair(<<"W","K","S","T">>, ToLowerCase(MO)),
             Pair(COUNT, <<"x">>)>>, ";") }

ParseTexts == RecurringTexts \cup FreqlessTexts \cup MixedTexts

InitRRule ==
    /\ \/ /\ ruleIn \in FormatRules
          /\ fromRule = TRUE /\ stage = "rule" /\ ruleText = <<>>
       \/ /\ ruleText \in ParseTexts
          /\ fromRule = FALSE /\ stage = "text" /\ ruleIn = EmptyRule
    /\ parsed = Returned(None)
    /\ reformatted = Returned(<<>>)
    /\ ExpandIdle
    /\ StoreIdle

\* text = formatRRule(rule)
FormatStep ==
    /\ stage = "rule"
    /\ ~FormatRRule(Some(ruleIn)).raised
    /\ ruleText' = Val(FormatRRule(Some(ruleIn)).value)
    /\ stage' = "text"
    /\ UNCHANGED <<ruleIn, fromRule, parsed, reformatted, expandVars, storeVars>>

\* parsed = parseRRule(text)
ParseStep ==
    /\ stage = "text"
    /\ parsed' = ParseRRule(Some(ruleText))
    /\ stage' = "parsed"
    /\ UNCHANGED <<ruleIn, fromRule, ruleText, reformatted, expandVars, storeVars>>

\* reformatted = formatRRule(parsed), when parseRRule returned
ReformatStep ==
    /\ stage = "parsed"
    /\ reformatted' = IF parsed.raised THEN parsed ELSE FormatRRule(Val(parsed.value))
    /\ stage' = "done"
    /\ UNCHANGED <<ruleIn, fromRule, ruleText, parsed, expandVars, storeVars>>

NextRRule == FormatStep \/ ParseStep \/ ReformatStep

SpecRRule == InitRRule /\ [][NextRRule]_vars

(***************************************************************************)
(* Properties of formatRRule and parseRRule                                *)
(***************************************************************************)
\* C7: for every rule r built from the supported fields (any subset
\* present, the empty rule included),
\* formatRRule(parseRRule(formatRRule(r))) is defined and equals
\* formatRRule(r).
C7_RoundTrip ==
    (stage = "done" /\ fromRule)
    => /\ ~reformatted.raised
       /\ Val(reformatted.value) = ruleText

\* The parts of the text parseRRule splits.
PartsOf(text) == Split(StripPrefix(text), ";")

HasMalformedPart(text) == \E i \in DOMAIN PartsOf(text) : ~WellFormedPart(PartsOf(text)[i])

MaxEvents == 2

\* new Date(x) of an optional Date: Invalid Date for undefined.
DateOf(o) == IF IsSome(o) THEN Val(o) ELSE NaN

\* A getConflictingEvents whose overlap test is not strict.
GetConflictingEventsTouching(evs, ev) ==
    IF ~IsSome(ev.start) \/ ~IsSome(ev.end) THEN <<>>
    ELSE LET Conflicting(e) ==
                 /\ e.uid # ev.uid
                 /\ IsSome(e.end)
                 /\ Le(DateOf(ev.start), DateOf(e.end))
                 /\ Ge(DateOf(ev.end), DateOf(e.start))
         IN  SelectSeq(evs, Conflicting)

\* CalendarCore.getConflictingEvents
GetConflictingEvents(evs, ev) ==
    IF ~IsSome(ev.start) \/ ~IsSome(ev.end) THEN <<>>
    ELSE LET eventStart == DateOf(ev.start)
             eventEnd   == DateOf(ev.end)
             Conflicting(e) ==
                 /\ e.uid # ev.uid
                 /\ IsSome(e.end)
                 /\ Lt(eventStart, DateOf(e.end))
                 /\ Gt(eventEnd, DateOf(e.start))
         IN  SelectSeq(evs, Conflicting)

\* The events of the store and of the queries: on 2025-11-05, starting at
\* 10:00, 10:30 or 11:00, lasting 30 or 60 minutes or without end.
Day == DaysFromCivil(2025, 10, 5) * MinutesPerDay

StartTimes == {Day + 600, Day + 630, Day + 660}

Lengths == {None, Some(30), Some(60)}

Uids == {<<"a">>, <<"b">>}

StoredEvents ==
    {[uid |-> u, start |-> Some(s),
      end |-> IF IsSome(d) THEN Some(s + Val(d)) ELSE None] :
        u \in Uids, s \in StartTimes, d \in Lengths}

\* A query event may carry a uid of no stored event, and may lack start
\* or end.
QueryEvents ==
    {[uid |-> u, start |-> Some(s),
      end |-> IF IsSome(d) THEN Some(s + Val(d)) ELSE None] :
        u \in Uids \cup {<<"c">>}, s \in StartTimes, d \in Lengths}
    \cup {[uid |-> <<"c">>, start |-> None, end |-> e] :
            e \in {None, Some(Day + 660)}}

Init ==
    /\ StoreIdle
    /\ ExpandIdle
    /\ RRuleIdle

\* CalendarCore.addEvents: one event or an array of events is appended.
AddEvents ==
    \E batch \in {<<e>> : e \in StoredEvents}
                 \cup {<<e1, e2>> : e1 \in StoredEvents, e2 \in StoredEvents} :
        /\ Len(events) + Len(batch) <= MaxEvents
        /\ events' = events \o batch
        /\ call' = [op |-> "addEvents", event |-> batch[1]]
        /\ result' = <<>>
        /\ UNCHANGED <<expandVars, rruleVars>>

\* CalendarCore.clearEvents
ClearEvents ==
    /\ events' = <<>>
    /\ call' = [NoCall EXCEPT !.op = "clearEvents"]
    /\ result' = <<>>
    /\ UNCHANGED <<expandVars, rruleVars>>

\* A call of CalendarCore.getConflictingEvents
CallGetConflictingEvents ==
    \E ev \in QueryEvents \cup {events[i] : i \in DOMAIN events} :
        /\ result' = GetConflictingEvents(events, ev)
        /\ call' = [op |-> "getConflictingEvents", event |-> ev]
        /\ UNCHANGED <<events, expandVars, rruleVars>>

Next == AddEvents \/ ClearEvents \/ CallGetConflictingEvents

Spec == Init /\ [][Next]_vars

(***************************************************************************)
(* Properties of the store                                                 *)
(***************************************************************************)
\* The positions of the stored events a sequence of results is made of,
\* in order: results is the subsequence of evs at the positions in S.
IsSelection(results, evs, S) ==
    /\ Len(results) = Cardinality(S)
    /\ \A i \in S :
          results[Cardinality({j \in S : j <= i})] = evs[i]

\* Strict overlap of the half-open intervals [a, b) and [c, d).
Overlap(a, b, c, d) == a < d /\ b > c

\* The positions of the stored events in conflict with ev.
ConflictPositions(ev) ==
    {i \in DOMAIN events :
        /\ events[i].uid # ev.uid
        /\ IsSome(events[i].end)
        /\ Overlap(Val(ev.start), Val(ev.end),
                   Val(events[i].start), Val(events[i].end))}

\* C10: getConflictingEvents(e) returns exactly the stored events x with
\* x.uid # e.uid, x.end set and e.start < x.end /\ e.end > x.start, in store
\* order, and nothing when e lacks start or end; so never e itself, never
\* an event without end, never one that only touches e; and between two
\* stored events with ends and distinct uids the relation is symmetric.
C10_ConflictsExact ==
    /\ call.op = "getConflictingEvents"
       => IF IsSome(call.event.start) /\ IsSome(call.event.end)
          THEN IsSelection(result, events, ConflictPositions(call.event))
          ELSE result = <<>>
    /\ call.op = "getConflictingEvents"
       => \A i \in DOMAIN result :
             /\ result[i].uid # call.event.uid
             /\ IsSome(result[i].end)
             /\ Val(result[i].end) # Val(call.event.start)
             /\ Val(result[i].start) # Val(call.event.end)
    /\ \A i, j \in DOMAIN events :
          (IsSome(events[i].end) /\ IsSome(events[j].end)
             /\ events[i].uid # events[j].uid)
          => (Includes(GetConflictingEvents(events, events[i]), events[j])
                <=> Includes(GetConflictingEvents(events, events[j]), events[i]))

\* A [10:00,11:00) and B [10:30,11:30) are stored; the query for A returns
\* B alone.
C10_Witness ==
    /\ call.op = "getConflictingEvents"
    /\ Len(events) = 2
    /\ events[1] = [uid |-> <<"a">>, start |-> Some(Day + 600), end |-> Some(Day + 660)]
    /\ events[2] = [uid |-> <<"b">>, start |-> Some(Day + 630), end |-> Some(Day + 690)]
    /\ call.event = events[1]
    /\ result = <<events[2]>>

(***************************************************************************)
(* Range and month queries (CalendarCore.getEventsInRange,                 *)
(* getEventsForMonth)                                                      *)
(***************************************************************************)
\* arr.sort((a, b) => new Date(a.start) - new Date(b.start)): a stable sort
\* (insertion of each element after the elements not greater than it).
RECURSIVE InsertByStart(_, _)
InsertByStart(sorted, e) ==
    IF Len(sorted) = 0 THEN <<e>>
    ELSE IF Gt(Sub(DateOf(sorted[Len(sorted)].start), DateOf(e.start)), 0)
    THEN Append(InsertByStart(SubSeq(sorted, 1, Len(sorted) - 1), e), sorted[Len(sorted)])
    ELSE Append(sorted, e)

RECURSIVE SortByStartFrom(_, _)
SortByStartFrom(sorted, arr) ==
    IF Len(arr) = 0 THEN sorted
    ELSE SortByStartFrom(InsertByStart(sorted, arr[1]), Tail(arr))

SortByStart(arr) == SortByStartFrom(<<>>, arr)

\* A getEventsInRange that leaves the sort out.
GetEventsInRangeUnsorted(evs, startDate, endDate) ==
    LET InRange(e) == /\ Ge(DateOf(e.start), startDate)
                      /\ Le(DateOf(e.start), endDate)
    IN  SelectSeq(evs, InRange)

\* CalendarCore.getEventsInRange
GetEventsInRange(evs, startDate, endDate) ==
    LET InRange(e) == /\ Ge(DateOf(e.start), startDate)
                      /\ Le(DateOf(e.start), endDate)
    IN  SortByStart(SelectSeq(evs, InRange))

\* CalendarCore.getEventsForMonth: the range from new Date(year, month, 1)
\* to new Date(year, month + 1, 0), both at 00:00.
GetEventsForMonth(evs, year, month) ==
    GetEventsInRange(evs, MakeDate(year, month, 1, 0, 0),
                          MakeDate(year, month + 1, 0, 0, 0))

\* Starts around the turn of January 2024: 2023-12-31 23:59, 2024-01-01
\* 00:00, 2024-01-15 10:00, 2024-01-31 00:00, 10:00 and 23:59, 2024-02-01
\* 00:00; and no start at all.
DatedStarts ==
    {Some(MakeDate(2023, 11, 31, 23, 59)), Some(MakeDate(2024, 0, 1, 0, 0)),
     Some(MakeDate(2024, 0, 15, 10, 0)), Some(MakeDate(2024, 0, 31, 0, 0)),
     Some(MakeDate(2024, 0, 31, 10, 0)), Some(MakeDate(2024, 0, 31, 23, 59)),
     Some(MakeDate(2024, 1, 1, 0, 0)), None}

DatedEvents == {[uid |-> u, start |-> s, end |-> None] : u \in Uids, s \in DatedStarts}

\* The bounds of a range query (the end may precede the start).
RangeBounds ==
    {MakeDate(2024, 0, 1, 0, 0), MakeDate(2024, 0, 31, 10, 0), MakeDate(2024, 1, 1, 0, 0)}

\* The months asked for: December 2023, January and February 2024 (also as
\* month 12 of 2023 and month -1 of 2024).
Months == {<<2023, 11>>, <<2024, 0>>, <<2024, 1>>, <<2023, 12>>, <<2024, 0 - 1>>}

InitRange ==
    /\ StoreIdle
    /\ ExpandIdle
    /\ RRuleIdle

\* CalendarCore.addEvents with dated events.
AddDatedEvents ==
    \E batch \in {<<e>> : e \in DatedEvents}
                 \cup {<<e1, e2>> : e1 \in DatedEvents, e2 \in DatedEvents} :
        /\ Len(events) + Len(batch) <= MaxEvents
        /\ events' = events \o batch
        /\ call' = [op |-> "addEvents", event |-> batch[1]]
        /\ result' = <<>>
        /\ UNCHANGED <<expandVars, rruleVars>>

\* A call of CalendarCore.getEventsInRange
CallGetEventsInRange ==
    \E startDate \in RangeBounds, endDate \in RangeBounds :
        /\ result' = GetEventsInRange(events, startDate, endDate)
        /\ call' = [op |-> "getEventsInRange", startDate |-> startDate, endDate |-> endDate]
        /\ UNCHANGED <<events, expandVars, rruleVars>>

\* A call of CalendarCore.getEventsForMonth
CallGetEventsForMonth ==
    \E ym \in Months :
        /\ result' = GetEventsForMonth(events, ym[1], ym[2])
        /\ call' = [op |-> "getEventsForMonth", year |-> ym[1], month |-> ym[2]]
        /\ UNCHANGED <<events, expandVars, rruleVars>>

NextRange == AddDatedEvents \/ ClearEvents \/ CallGetEventsInRange \/ CallGetEventsForMonth

SpecRange == InitRange /\ [][NextRange]_vars

(***************************************************************************)
(* Properties of the range and month queries                               *)
(***************************************************************************)
\* The positions of the stored events whose start lies in [from, to].
PositionsInRange(from, to) ==
    {i \in DOMAIN events :
        /\ IsSome(events[i].start)
        /\ Val(events[i].start) >= from
        /\ Val(events[i].start) <= to}

\* results holds the stored events at the positions in S, ascending by
\* start, events of equal start in store order.
IsSortedSelection(results, S) ==
    /\ Len(results) = Cardinality(S)
    /\ \A i \in S :
          results[Cardinality({j \in S :
                      \/ Val(events[j].start) < Val(events[i].start)
                      \/ Val(events[j].start) = Val(events[i].start) /\ j <= i})]
              = events[i]

\* C11: getEventsInRange(start, end) returns exactly the stored events
\* whose start lies in the closed interval [start, end], ascending by
\* start whatever the insertion order was, events of equal start in their
\* store order.
C11_RangeSorted ==
    call.op = "getEventsInRange"
    => /\ IsSortedSelection(result, PositionsInRange(call.startDate, call.endDate))
       /\ \A i \in 1..(Len(result) - 1) :
             Val(result[i].start) <= Val(result[i + 1].start)

\* Stored as b (Jan 31 10:00) then a (Jan 1 00:00): the range over both
\* returns a, then b.
C11_Witness ==
    /\ call.op = "getEventsInRange"
    /\ Len(events) = 2
    /\ events[1] = [uid |-> <<"b">>, start |-> Some(MakeDate(2024, 0, 31, 10, 0)), end |-> None]
    /\ events[2] = [uid |-> <<"a">>, start |-> Some(MakeDate(2024, 0, 1, 0, 0)), end |-> None]
    /\ result = <<events[2], events[1]>>

\* The month index (months since year 0) of a call of getEventsForMonth.
CalledMonth == call.year * 12 + call.month

\* C12: getEventsForMonth(year, month) returns all stored events of that
\* calendar month: every stored event whose start falls on any day of the
\* month, at any time of day of its last day included, is in the result,
\* and no event of another month is.
C12_WholeMonth ==
    call.op = "getEventsForMonth"
    => \A i \in DOMAIN events :
          IsSome(events[i].start)
          => (Includes(result, events[i])
                <=> MonthIndex(Val(events[i].start)) = CalledMonth)

(***************************************************************************)
(* The month grid (CalendarCore.getMonthGrid, getEventsForDate, isToday)   *)
(***************************************************************************)
\* date.setHours(0, 0, 0, 0)
StartOfDay(t) == IF IsNaN(t) THEN NaN ELSE t - (t % MinutesPerDay)

\* CalendarCore.getEventsForDate: NaN === NaN is false.
GetEventsForDate(evs, date) ==
    LET targetDate == StartOfDay(date)
        OnDate(e)  == /\ ~IsNaN(StartOfDay(DateOf(e.start)))
                      /\ StartOfDay(DateOf(e.start)) = targetDate
    IN  SelectSeq(evs, OnDate)

\* An isToday that compares the day of month alone.
IsTodayByDayOfMonth(today, date) == GetDate(today) = GetDate(date)

\* CalendarCore.isToday, today being the value of new Date().
IsToday(today, date) ==
    /\ GetFullYear(today) = GetFullYear(date)
    /\ GetMonth(today) = GetMonth(date)
    /\ GetDate(today) = GetDate(date)

\* The cells pushed before the month starts: no date, no isToday.
BlankCell == [day |-> None, date |-> None, events |-> <<>>, isToday |-> None]

\* CalendarCore.getMonthGrid.  The clock does not pass midnight during the
\* call: every cell is compared with the same today.
GetMonthGrid(evs, year, month, today) ==
    LET firstDay    == GetDay(MakeDate(year, month, 1, 0, 0))
        daysInMonth == GetDate(MakeDate(year, month + 1, 0, 0, 0))
        DayCell(day) ==
            LET date == MakeDate(year, month, day, 0, 0)
            IN  [day |-> Some(day), date |-> Some(date),
                 events |-> GetEventsForDate(evs, date),
                 isToday |-> Some(IsToday(today, date))]
    IN  [year |-> year, month |-> month,
         grid |-> [i \in 1..firstDay |-> BlankCell]
                    \o [day \in 1..daysInMonth |-> DayCell(day)],
         totalEvents |-> Len(GetEventsForMonth(evs, year, month))]

\* The months of the grids: January 2024 (a Monday first, 31 days), also as
\* month 12 of 2023; February 2024 (Thursday, 29 days); September 2024
\* (Sunday, 30 days); February 2025 (Saturday, 28 days).
GridMonths == {<<2024, 0>>, <<2023, 12>>, <<2024, 1>>, <<2024, 8>>, <<2025, 1>>}

\* The values of the clock.
Todays ==
    {MakeDate(2024, 0, 31, 23, 59), MakeDate(2024, 1, 1, 0, 0), MakeDate(2024, 1, 29, 12, 0),
     MakeDate(2024, 8, 1, 0, 0), MakeDate(2025, 1, 28, 23, 59), MakeDate(2025, 2, 1, 0, 0)}

\* The events of the grids: on 2024-01-31 at 23:59, on 2024-02-29 at 12:00,
\* and one without start.
GridEvents ==
    {[uid |-> <<"a">>, start |-> Some(MakeDate(2024, 0, 31, 23, 59)), end |-> None],
     [uid |-> <<"b">>, start |-> Some(MakeDate(2024, 1, 29, 12, 0)), end |-> None],
     [uid |-> <<"c">>, start |-> None, end |-> None]}

InitGrid ==
    /\ StoreIdle
    /\ ExpandIdle
    /\ RRuleIdle

\* CalendarCore.addEvents with the events of the grids.
AddGridEvents ==
    \E batch \in {<<e>> : e \in GridEvents}
                 \cup {<<e1, e2>> : e1 \in GridEvents, e2 \in GridEvents} :
        /\ Len(events) + Len(batch) <= MaxEvents
        /\ events' = events \o batch
        /\ call' = [op |-> "addEvents", event |-> batch[1]]
        /\ result' = <<>>
        /\ UNCHANGED <<expandVars, rruleVars>>

\* A call of CalendarCore.getMonthGrid
CallGetMonthGrid ==
    \E ym \in GridMonths, today \in Todays :
        /\ result' = GetMonthGrid(events, ym[1], ym[2], today)
        /\ call' = [op |-> "getMonthGrid", year |-> ym[1], month |-> ym[2], today |-> today]
        /\ UNCHANGED <<events, expandVars, rruleVars>>

NextGrid == AddGridEvents \/ ClearEvents \/ CallGetMonthGrid

SpecGrid == InitGrid /\ [][NextGrid]_vars

(***************************************************************************)
(* Properties of the month grid                                            *)
(***************************************************************************)
\* The weekday (Sunday = 0) of day 1 of the called month.
LeadingBlanks == (DaysFromCivil(0, CalledMonth, 1) + 4) % 7

\* C13: getMonthGrid(year, month) returns a grid of exactly leadingBlanks +
\* daysInMonth cells, leadingBlanks being the weekday index (Sunday = 0) of
\* day 1: the blanks first, then one cell per day 1..daysInMonth in order,
\* no trailing padding; exactly one cell has isToday = true if today falls
\* in that month, and none otherwise.
C13_GridShape ==
    call.op = "getMonthGrid"
    => LET grid == result.grid
           days == DaysInMonth(CalledMonth)
       IN  /\ Len(grid) = LeadingBlanks + days
           /\ \A i \in 1..LeadingBlanks : ~IsSome(grid[i].day)
           /\ \A d \in 1..days :
                 /\ grid[LeadingBlanks + d].day = Some(d)
                 /\ MonthIndex(Val(grid[LeadingBlanks + d].date)) = CalledMonth
                 /\ DateOfMonth(Val(grid[LeadingBlanks + d].date)) = d
           /\ Cardinality({i \in DOMAIN grid : grid[i].isToday = Some(TRUE)})
                 = IF MonthIndex(call.today) = CalledMonth THEN 1 ELSE 0

\* February 2024 on its last day: 4 blanks, 29 days, the last cell is today.
C13_Witness ==
    /\ call.op = "getMonthGrid"
    /\ call.year = 2024 /\ call.month = 1
    /\ call.today = MakeDate(2024, 1, 29, 12, 0)
    /\ Len(result.grid) = 33
    /\ result.grid[33].isToday = Some(TRUE)
    /\ ~IsSome(result.grid[4].day) /\ result.grid[5].day = Some(1)
    /\ Len(result.grid[33].events) = 1

(***************************************************************************)
(* ISO week numbers (CalendarCore.getWeekNumber, getWeekYear)              *)
(***************************************************************************)
\* An anchor day computed with Sunday as day 0 of the week.
AnchorThursdayNoSeven(date) ==
    LET day == DayOf(date)
    IN  day + 4 - ((day + 4) % 7)

\* The day number of the Thursday of the date's week (lines 151-153): d is
\* the date's day, dayNum = d.getUTCDay() || 7 makes Sunday the 7th day.
AnchorThursday(date) ==
    LET day    == DayOf(date)
        dayNum == IF (day + 4) % 7 = 0 THEN 7 ELSE (day + 4) % 7
    IN  day + 4 - dayNum

\* CalendarCore.getWeekNumber: Math.ceil((((d - yearStart) / 86400000) + 1) / 7)
GetWeekNumber(date) ==
    LET d         == AnchorThursday(date)
        yearStart == DaysFromCivil(CivilFromDays(d).year, 0, 1)
    IN  (d - yearStart + 1 + 6) \div 7

\* CalendarCore.getWeekYear
GetWeekYear(date) == CivilFromDays(AnchorThursday(date)).year

\* The dates asked about: every day from 2019-12-25 to 2027-01-10, at 00:00
\* and at 23:59 (2020 and 2026 have 53 weeks; 2021, 2022 and 2023 begin on a
\* Friday, a Saturday and a Sunday).
WeekDates ==
    {day * MinutesPerDay + t :
        day \in DaysFromCivil(2019, 11, 25)..DaysFromCivil(2027, 0, 10),
        t \in {0, MinutesPerDay - 1}}

\* A date is picked; the two functions are then called on it.
InitWeek ==
    /\ events = <<>>
    /\ \E date \in WeekDates : call = [op |-> "none", date |-> date]
    /\ result = <<>>
    /\ ExpandIdle
    /\ RRuleIdle

CallGetWeekNumber ==
    /\ result' = GetWeekNumber(call.date)
    /\ call' = [call EXCEPT !.op = "getWeekNumber"]
    /\ UNCHANGED <<events, expandVars, rruleVars>>

CallGetWeekYear ==
    /\ result' = GetWeekYear(call.date)
    /\ call' = [call EXCEPT !.op = "getWeekYear"]
    /\ UNCHANGED <<events, expandVars, rruleVars>>

NextWeek == CallGetWeekNumber \/ CallGetWeekYear

SpecWeek == InitWeek /\ [][NextWeek]_vars

(***************************************************************************)
(* Properties of the week numbers                                          *)
(***************************************************************************)
\* The day number of the Monday of the week (Monday..Sunday) of a day.
MondayOf(day) == day - ((day + 3) % 7)

\* The day number of the first Thursday of a year.
FirstThursday(year) ==
    CHOOSE day \in DaysFromCivil(year, 0, 1)..(DaysFromCivil(year, 0, 1) + 6) :
        (day + 4) % 7 = 4

\* The ISO week of a date as <<weekYear, weekNumber>>, by the functions.
IsoWeek(date) == <<GetWeekYear(date), GetWeekNumber(date)>>

\* C14: getWeekNumber and getWeekYear are the ISO-8601 week numbering: the
\* week number is in 1..53, the seven days Monday..Sunday of a week have
\* the same (weekYear, weekNumber), week 1 is the week of the year's first
\* Thursday, and a January 1st on a Friday, Saturday or Sunday has
\* weekYear = year - 1 and week 52 or 53.
C14_IsoWeeks ==
    call.op \in {"getWeekNumber", "getWeekYear"}
    => LET day    == DayOf(call.date)
           number == IF call.op = "getWeekNumber" THEN result ELSE GetWeekNumber(call.date)
           year   == IF call.op = "getWeekYear" THEN result ELSE GetWeekYear(call.date)
           civil  == CivilFromDays(day)
       IN  /\ number \in 1..53
           /\ \A k \in 0..6 : IsoWeek((MondayOf(day) + k) * MinutesPerDay) = <<year, number>>
           /\ MondayOf(day) = MondayOf(FirstThursday(year)) + 7 * (number - 1)
           /\ (civil.month = 0 /\ civil.date = 1 /\ (day + 4) % 7 \in {5, 6, 0})
                 => year = civil.year - 1 /\ number \in {52, 53}

\* Friday 2021-01-01 is in week 53 of 2020.
C14_Witness ==
    /\ call.op = "getWeekNumber"
    /\ call.date = MakeDate(2021, 0, 1, 23, 59)
    /\ result = 53
    /\ GetWeekYear(call.date) = 2020

(***************************************************************************)
(* The queries and the store they read (CalendarCore, EventManager         *)
(* .findEvents, Recurrence.expandRecurrence, JSCal.getAllEventsExpanded)   *)
(***************************************************************************)
\* String.prototype.includes
Contains(s, q) ==
    \E i \in 0..(Len(s) - Len(q)) : SubSeq(s, i + 1, i + Len(q)) = q

\* The outcome of a query on the store evs: the store after it, the array
\* returned ("new": an array made by the call; "store": this.events itself)
\* and its elements.
Fresh(evs, items) == [store |-> evs, array |-> "new", items |-> items]

\* A getAllEvents that sorts this.events in place and returns it.
GetAllEventsInPlace(evs) ==
    [store |-> SortByStart(evs), array |-> "store", items |-> SortByStart(evs)]

\* CalendarCore.getAllEvents: [...this.events].sort(...)
GetAllEvents(evs) == Fresh(evs, SortByStart(evs))

\* CalendarCore.searchEvents (every event of the model has a title and no
\* description or location)
SearchEvents(evs, query) ==
    LET lowerQuery == ToLowerCase(query)
        Matches(e) == Contains(ToLowerCase(e.title), lowerQuery)
    IN  SelectSeq(evs, Matches)

\* CalendarCore.filterByCategory (one category or an array of them)
FilterByCategory(evs, categories) ==
    LET lowerCategories == [i \in DOMAIN categories |-> ToLowerCase(categories[i])]
        Matches(e) ==
            /\ Len(e.categories) > 0
            /\ \E i \in DOMAIN e.categories :
                  Includes(lowerCategories, ToLowerCase(e.categories[i]))
    IN  SelectSeq(evs, Matches)

\* arr.sort((a, b) => a.priority - b.priority), stable.
RECURSIVE InsertByPriority(_, _)
InsertByPriority(sorted, e) ==
    IF Len(sorted) = 0 THEN <<e>>
    ELSE IF Val(sorted[Len(sorted)].priority) - Val(e.priority) > 0
    THEN Append(InsertByPriority(SubSeq(sorted, 1, Len(sorted) - 1), e), sorted[Len(sorted)])
    ELSE Append(sorted, e)

RECURSIVE SortByPriorityFrom(_, _)
SortByPriorityFrom(sorted, arr) ==
    IF Len(arr) = 0 THEN sorted
    ELSE SortByPriorityFrom(InsertByPriority(sorted, arr[1]), Tail(arr))

\* CalendarCore.getEventsByPriority
GetEventsByPriority(evs, minPriority, maxPriority) ==
    LET Matches(e) ==
            /\ IsSome(e.priority) /\ Truthy(Val(e.priority))
            /\ Val(e.priority) >= minPriority /\ Val(e.priority) <= maxPriority
    IN  SortByPriorityFrom(<<>>, SelectSeq(evs, Matches))

\* CalendarCore.getEventsByStatus
GetEventsByStatus(evs, status) ==
    LET upperStatus == ToUpperCase(status)
        Matches(e)  == e.status = Some(upperStatus)
    IN  SelectSeq(evs, Matches)

\* EventManager.findEvents with the predicate e => !e.end
FindEventsWithoutEnd(evs) ==
    LET Matches(e) == ~IsSome(e.end)
    IN  SelectSeq(evs, Matches)

\* A stored event as expandRecurrence reads it: startDate = new
\* Date(event.start), and the rule in recurrence or rrule.
ExpandEventOf(e) ==
    [uid |-> e.uid, start |-> DateOf(e.start), end |-> e.end,
     recurrence |-> e.recurrence, rrule |-> e.rrule]

\* The while loop of expandRecurrence from the candidate cur on, count
\* occurrences being emitted so far (the steps of LoopStep, run to the end).
\* rrule, duration and ers (expandedRangeStart) are what the code computes
\* before the loop.
RECURSIVE ExpandWalk(_, _, _, _, _, _, _, _, _)
RECURSIVE ExpandWalkBody(_, _, _, _, _, _, _, _, _, _, _)
ExpandWalk(ev, rrule, duration, ers, rEnd, maxOcc, cur, cnt, occs) ==
    IF ~Lt(cnt, MaxCountOf(rrule, maxOcc)) THEN occs
    ELSE IF IsSome(rrule.until) /\ Gt(cur, Val(rrule.until)) THEN occs
    ELSE IF IsSome(rEnd) /\ Gt(cur, Val(rEnd)) THEN occs
    ELSE ExpandWalkBody(ev, rrule, duration, ers, rEnd, maxOcc, cur, cnt, occs,
                        (~IsSome(ers) \/ Ge(cur, Val(ers))) /\ MatchesRule(cur, rrule),
                        GetNextOccurrence(cur, Val(rrule.freq), IntervalOf(rrule)))

\* The rest of one turn of the loop, once the break conditions have let it
\* through: emit says whether the candidate is pushed, next is the
\* candidate that follows.
ExpandWalkBody(ev, rrule, duration, ers, rEnd, maxOcc, cur, cnt, occs, emit, next) ==
    LET occs2 == IF emit THEN Append(occs, Occurrence(ev, cur, duration)) ELSE occs
    IN  IF Len(occs2) > 0 /\ ~IsNaN(next) /\ next = occs2[Len(occs2)].start THEN occs2
        ELSE ExpandWalk(ev, rrule, duration, ers, rEnd, maxOcc, next,
                        IF emit THEN cnt + 1 ELSE cnt, occs2)

\* The occurrences as stored events keep them: start is a present field.
WithStart(occs) == [i \in DOMAIN occs |-> [occs[i] EXCEPT !.start = Some(@)]]

\* Recurrence.expandRecurrence on a stored event: [event], or the
\* occurrences.
ExpandRecurrence(e, rStart, rEnd, maxOcc) ==
    IF NotRecurring(ExpandEventOf(e)) THEN <<e>>
    ELSE WithStart(ExpandWalk(ExpandEventOf(e), Val(ResolveRule(ExpandEventOf(e))),
                              EventDuration(ExpandEventOf(e)),
                              ExpandedRangeStart(rStart, EventDuration(ExpandEventOf(e))),
                              rEnd, maxOcc, ExpandEventOf(e).start, 0, <<>>))

\* JSCal.getAllEventsExpanded
RECURSIVE ExpandAll(_, _, _)
ExpandAll(evs, rStart, rEnd) ==
    IF Len(evs) = 0 THEN <<>>
    ELSE LET e == evs[1]
             recurring == ~(RecurrenceFalsy(e.recurrence) /\ RruleFalsy(e.rrule))
             inRange == \/ ~IsSome(rStart) \/ ~IsSome(rEnd)
                        \/ /\ Ge(DateOf(e.start), Val(rStart))
                           /\ Le(DateOf(e.start), Val(rEnd))
         IN  (IF recurring THEN ExpandRecurrence(e, rStart, rEnd, None)
              ELSE IF inRange THEN <<e>> ELSE <<>>)
             \o ExpandAll(Tail(evs), rStart, rEnd)

GetAllEventsExpanded(evs, rStart, rEnd) == SortByStart(ExpandAll(evs, rStart, rEnd))

\* The events of this store: a daily meeting with three occurrences (rule
\* object), a lunch without end, a weekly review (rule text in rrule).
Standup ==
    [uid |-> <<"a">>, title |-> <<"S","t","a","n","d","u","p">>,
     start |-> Some(MakeDate(2024, 0, 31, 10, 0)), end |-> Some(MakeDate(2024, 0, 31, 11, 0)),
     categories |-> << <<"W","o","r","k">> >>, priority |-> Some(5),
     status |-> Some(<<"C","O","N","F","I","R","M","E","D">>),
     recurrence |-> RecurrenceObject([EmptyRule EXCEPT !.freq = Some(DAILY),
                                                       !.count = Some(3)]),
     rrule |-> None]

Lunch ==
    [uid |-> <<"b">>, title |-> <<"L","u","n","c","h">>,
     start |-> Some(MakeDate(2024, 0, 31, 10, 30)), end |-> None,
     categories |-> <<>>, priority |-> None, status |-> None,
     recurrence |-> NoRecurrence, rrule |-> None]

Review ==
    [uid |-> <<"c">>, title |-> <<"R","e","v","i","e","w">>,
     start |-> Some(MakeDate(2024, 0, 15, 10, 0)), end |-> Some(MakeDate(2024, 0, 15, 12, 0)),
     categories |-> << <<"w","o","r","k">>, <<"Q","A">> >>, priority |-> Some(1),
     status |-> Some(<<"T","E","N","T","A","T","I","V","E">>),
     recurrence |-> NoRecurrence,
     rrule |-> Some(Join(<<Pair(FREQ, WEEKLY), Pair(COUNT, <<"3">>)>>, ";"))]

FrameEvents == {Standup, Lunch, Review}

\* The ranges of the queries: none, and 2024-01-31 10:00 .. 2024-02-01 00:00.
FrameRanges ==
    {<<None, None>>, <<Some(MakeDate(2024, 0, 31, 10, 0)), Some(MakeDate(2024, 1, 1, 0, 0))>>}

QueryOps ==
    {"getEventsForDate", "getEventsInRange", "getEventsForMonth", "getMonthGrid",
     "getAllEvents", "searchEvents", "getConflictingEvents", "filterByCategory",
     "getEventsByPriority", "getEventsByStatus", "findEvents", "expandRecurrence",
     "getAllEventsExpanded"}

InitFrame ==
    /\ StoreIdle
    /\ ExpandIdle
    /\ RRuleIdle

\* CalendarCore.addEvents with these events.
AddFrameEvents ==
    \E batch \in {<<e>> : e \in FrameEvents}
                 \cup {<<e1, e2>> : e1 \in FrameEvents, e2 \in FrameEvents} :
        /\ Len(events) + Len(batch) <= MaxEvents
        /\ events' = events \o batch
        /\ call' = [op |-> "addEvents"]
        /\ result' = <<>>
        /\ UNCHANGED <<expandVars, rruleVars>>

\* A query was called: the store, and the array the caller holds.
Query(name, outcome) ==
    /\ events' = outcome.store
    /\ call' = [op |-> name]
    /\ result' = [array |-> outcome.array, items |-> outcome.items]
    /\ UNCHANGED <<expandVars, rruleVars>>

QueryGetEventsForDate ==
    \E date \in {MakeDate(2024, 0, 31, 0, 0), MakeDate(2024, 0, 15, 23, 59)} :
        Query("getEventsForDate", Fresh(events, GetEventsForDate(events, date)))

QueryGetEventsInRange ==
    \E range \in FrameRanges \ {<<None, None>>} :
        Query("getEventsInRange",
              Fresh(events, GetEventsInRange(events, Val(range[1]), Val(range[2]))))

QueryGetEventsForMonth ==
    Query("getEventsForMonth", Fresh(events, GetEventsForMonth(events, 2024, 0)))

QueryGetMonthGrid ==
    Query("getMonthGrid",
          Fresh(events, GetMonthGrid(events, 2024, 0, MakeDate(2024, 0, 31, 23, 59)).grid))

QueryGetAllEvents == Query("getAllEvents", GetAllEvents(events))

QuerySearchEvents ==
    \E query \in {<<"S">>, <<"l","u","n","c","h">>} :
        Query("searchEvents", Fresh(events, SearchEvents(events, query)))

QueryGetConflictingEvents ==
    \E e \in FrameEvents :
        Query("getConflictingEvents", Fresh(events, GetConflictingEvents(events, e)))

QueryFilterByCategory ==
    \E categories \in {<< <<"W","O","R","K">> >>, << <<"q","a">>, <<"x">> >>} :
        Query("filterByCategory", Fresh(events, FilterByCategory(events, categories)))

QueryGetEventsByPriority ==
    \E maxPriority \in {3, 9} :
        Query("getEventsByPriority", Fresh(events, GetEventsByPriority(events, 1, maxPriority)))

QueryGetEventsByStatus ==
    \E status \in {<<"c","o","n","f","i","r","m","e","d">>, <<"C","A","N","C","E","L","L","E","D">>} :
        Query("getEventsByStatus", Fresh(events, GetEventsByStatus(events, status)))

QueryFindEvents == Query("findEvents", Fresh(events, FindEventsWithoutEnd(events)))

QueryExpandRecurrence ==
    \E i \in DOMAIN events, range \in FrameRanges :
        Query("expandRecurrence",
              Fresh(events, ExpandRecurrence(events[i], range[1], range[2], None)))

QueryGetAllEventsExpanded ==
    \E range \in FrameRanges :
        Query("getAllEventsExpanded",
              Fresh(events, GetAllEventsExpanded(events, range[1], range[2])))

\* Array.prototype.reverse
Reverse(arr) == [i \in DOMAIN arr |-> arr[Len(arr) + 1 - i]]

\* The caller changes the array a query returned: push, pop or reverse.
\* What it does to this.events depends on which array that is.
MutateResult ==
    /\ call.op \in QueryOps
    /\ \E items \in {Append(result.items, Lunch), Reverse(result.items),
                     SubSeq(result.items, 1, Len(result.items) - 1)} :
          /\ result' = [result EXCEPT !.items = items]
          /\ events' = IF result.array = "store" THEN items ELSE events
    /\ call' = [op |-> "mutate", of |-> call.op]
    /\ UNCHANGED <<expandVars, rruleVars>>

NextFrame ==
    \/ AddFrameEvents
    \/ ClearEvents
    \/ QueryGetEventsForDate
    \/ QueryGetEventsInRange
    \/ QueryGetEventsForMonth
    \/ QueryGetMonthGrid
    \/ QueryGetAllEvents
    \/ QuerySearchEvents
    \/ QueryGetConflictingEvents
    \/ QueryFilterByCategory
    \/ QueryGetEventsByPriority
    \/ QueryGetEventsByStatus
    \/ QueryFindEvents
    \/ QueryExpandRecurrence
    \/ QueryGetAllEventsExpanded
    \/ MutateResult

SpecFrame == InitFrame /\ [][NextFrame]_vars

(***************************************************************************)
(* Properties of the queries                                               *)
(***************************************************************************)
\* C15: no query changes the Store's contents or order, no occurrence is
\* added to the Store, and each returned sequence is a fresh one: adding
\* to, removing from or reordering it never changes the Store.
C15_QueriesLeaveStore ==
    [][(call'.op \in QueryOps \cup {"mutate"})
          => /\ events' = events
             /\ \A i \in DOMAIN events' : events'[i] \in FrameEvents]_vars

\* The Store holds Standup then Review; getAllEvents returned Review then
\* Standup, the caller reversed that, the Store is as it was.
C15_Witness ==
    /\ call = [op |-> "mutate", of |-> "getAllEvents"]
    /\ events = <<Standup, Review>>
    /\ result.items = <<Standup, Review>>
    /\ result.array = "new"

(***************************************************************************)
(* The Event Manager (EventManager): the operations on a store evs.  Each  *)
(* gives the store after the call and the call's outcome.  Of a stored     *)
(* event the title, start, end and uid are modelled; an argument that may  *)
(* be absent is None or Some(value), and null for end is Some(None).       *)
(***************************************************************************)
\* A string or absent string is falsy when absent or empty.
Falsy(text) == ~IsSome(text) \/ Len(Val(text)) = 0

\* a || b
OrElse(a, b) == IF Falsy(a) THEN b ELSE a

\* Number.prototype.toString(36) of a natural number.
Base36Digits ==
    <<"0","1","2","3","4","5","6","7","8","9","a","b","c","d","e","f","g","h","i","j",
      "k","l","m","n","o","p","q","r","s","t","u","v","w","x","y","z">>

RECURSIVE ToString36(_)
ToString36(n) ==
    IF n < 36 THEN <<Base36Digits[n + 1]>>
    ELSE Append(ToString36(n \div 36), Base36Digits[(n % 36) + 1])

\* EventManager.generateUID, with the values of Date.now() and of
\* Math.random().toString(36).substring(2, 9).
GenerateUID(now, random) ==
    ToString36(now) \o <<"-">> \o random \o <<"@","j","s","c","a","l">>

\* EventManager.normalizeEvent
NormalizeEvent(input, generated) ==
    [title |-> Val(OrElse(OrElse(input.title, input.summary),
                          Some(<<"U","n","t","i","t","l","e","d">>))),
     start |-> Some(IF IsSome(input.start) THEN Val(input.start) ELSE DateOf(input.startDate)),
     end   |-> input.end,
     uid   |-> Val(OrElse(OrElse(input.uid, input.id), Some(generated)))]

\* An addEvent that asks for title and start themselves.
AddEventWithoutAliases(evs, input, generated) ==
    IF ~input.isObject
    THEN [store |-> evs, result |-> Raised("Event must be an object")]
    ELSE IF Falsy(input.title)
    THEN [store |-> evs, result |-> Raised("Event must have a title")]
    ELSE IF ~IsSome(input.start)
    THEN [store |-> evs, result |-> Raised("Event must have a start date")]
    ELSE [store |-> Append(evs, NormalizeEvent(input, generated)),
          result |-> Returned(NormalizeEvent(input, generated))]

\* EventManager.addEvent
AddEvent(evs, input, generated) ==
    IF ~input.isObject
    THEN [store |-> evs, result |-> Raised("Event must be an object")]
    ELSE IF Falsy(input.title) /\ Falsy(input.summary)
    THEN [store |-> evs, result |-> Raised("Event must have a title")]
    ELSE IF ~IsSome(input.start) /\ ~IsSome(input.startDate)
    THEN [store |-> evs, result |-> Raised("Event must have a start date")]
    ELSE [store |-> Append(evs, NormalizeEvent(input, generated)),
          result |-> Returned(NormalizeEvent(input, generated))]

\* A findIndex that gives the last entry of that uid.
FindLastIndex(evs, uid) ==
    IF \E i \in DOMAIN evs : Some(evs[i].uid) = uid
    THEN CHOOSE i \in DOMAIN evs :
            /\ Some(evs[i].uid) = uid
            /\ \A j \in (i + 1)..Len(evs) : Some(evs[j].uid) # uid
    ELSE 0

\* this.core.events.findIndex(e => e.uid === uid): 0 for -1.
FindIndex(evs, uid) ==
    IF \E i \in DOMAIN evs : Some(evs[i].uid) = uid
    THEN CHOOSE i \in DOMAIN evs :
            /\ Some(evs[i].uid) = uid
            /\ \A j \in 1..(i - 1) : Some(evs[j].uid) # uid
    ELSE 0

\* { ...existing, ...updates, uid: existing.uid }
Merge(existing, updates) ==
    [title |-> IF IsSome(updates.title) THEN Val(updates.title) ELSE existing.title,
     start |-> IF IsSome(updates.start) THEN Val(updates.start) ELSE existing.start,
     end   |-> IF IsSome(updates.end) THEN Val(updates.end) ELSE existing.end,
     uid   |-> existing.uid]

\* An updateEvent that lets the patch replace the uid.
UpdateEventWithUid(evs, uid, updates) ==
    IF Falsy(uid)
    THEN [store |-> evs, result |-> Raised("UID is required to update an event")]
    ELSE LET index == FindIndex(evs, uid)
             merged == [Merge(evs[index], updates) EXCEPT
                          !.uid = IF IsSome(updates.uid) THEN Val(updates.uid) ELSE @]
         IN  IF index = 0 THEN [store |-> evs, result |-> Returned(None)]
             ELSE [store |-> [evs EXCEPT ![index] = merged],
                   result |-> Returned(Some(merged))]

\* EventManager.updateEvent; null is Returned(None).
UpdateEvent(evs, uid, updates) ==
    IF Falsy(uid)
    THEN [store |-> evs, result |-> Raised("UID is required to update an event")]
    ELSE LET index == FindIndex(evs, uid)
         IN  IF index = 0 THEN [store |-> evs, result |-> Returned(None)]
             ELSE [store |-> [evs EXCEPT ![index] = Merge(evs[index], updates)],
                   result |-> Returned(Some(Merge(evs[index], updates)))]

\* A deleteEvent that removes the first entry of that uid alone.
DeleteFirstEvent(evs, uid) ==
    IF Falsy(uid)
    THEN [store |-> evs, result |-> Raised("UID is required to delete an event")]
    ELSE LET index == FindIndex(evs, uid)
         IN  IF index = 0 THEN [store |-> evs, result |-> Returned(FALSE)]
             ELSE [store |-> SubSeq(evs, 1, index - 1) \o SubSeq(evs, index + 1, Len(evs)),
                   result |-> Returned(TRUE)]

\* EventManager.deleteEvent
DeleteEvent(evs, uid) ==
    IF Falsy(uid)
    THEN [store |-> evs, result |-> Raised("UID is required to delete an event")]
    ELSE LET Kept(e)   == Some(e.uid) # uid
             remaining == SelectSeq(evs, Kept)
         IN  [store |-> remaining, result |-> Returned(Len(remaining) < Len(evs))]

\* EventManager.deleteEvents; uids is None when the argument is no array.
DeleteEvents(evs, uids) ==
    IF ~IsSome(uids)
    THEN [store |-> evs, result |-> Raised("UIDs must be an array")]
    ELSE LET Kept(e)   == ~Includes(Val(uids), e.uid)
             remaining == SelectSeq(evs, Kept)
         IN  [store |-> remaining, result |-> Returned(Len(evs) - Len(remaining))]

\* EventManager.findEventByUID: the first entry of that uid, None for null.
FindEventByUID(evs, uid) ==
    IF FindIndex(evs, uid) = 0 THEN None ELSE Some(evs[FindIndex(evs, uid)])

\* A duplicateEvent whose overrides are spread after the new uid.
DuplicateEventUidFirst(evs, uid, modifications, generated) ==
    LET original == FindEventByUID(evs, uid)
    IN  IF ~IsSome(original) THEN [store |-> evs, result |-> Returned(None)]
        ELSE LET duplicate ==
                     [Merge(Val(original), modifications) EXCEPT
                        !.uid = IF IsSome(modifications.uid) THEN Val(modifications.uid)
                                ELSE generated]
             IN  [store |-> Append(evs, duplicate), result |-> Returned(Some(duplicate))]

\* EventManager.duplicateEvent
DuplicateEvent(evs, uid, modifications, generated) ==
    LET original == FindEventByUID(evs, uid)
    IN  IF ~IsSome(original) THEN [store |-> evs, result |-> Returned(None)]
        ELSE LET duplicate == [Merge(Val(original), modifications) EXCEPT !.uid = generated]
             IN  [store |-> Append(evs, duplicate), result |-> Returned(Some(duplicate))]

\* No update: the patch {}.
NoUpdates == [title |-> None, start |-> None, end |-> None, uid |-> None]

\* A moveEvent that leaves the end where it was when the duration is kept.
MoveEventStartOnly(evs, uid, newStart, keepDuration) ==
    LET found == FindEventByUID(evs, uid)
    IN  IF ~IsSome(found) THEN [store |-> evs, result |-> Returned(None)]
        ELSE UpdateEvent(evs, uid,
                         [NoUpdates EXCEPT
                            !.start = Some(Some(newStart)),
                            !.end = IF keepDuration THEN None ELSE Some(None)])

\* EventManager.moveEvent
MoveEvent(evs, uid, newStart, keepDuration) ==
    LET found == FindEventByUID(evs, uid)
    IN  IF ~IsSome(found) THEN [store |-> evs, result |-> Returned(None)]
        ELSE LET ev       == Val(found)
                 duration == Sub(DateOf(ev.end), DateOf(ev.start))
                 updates  ==
                     [NoUpdates EXCEPT
                        !.start = Some(Some(newStart)),
                        !.end = IF keepDuration /\ IsSome(ev.end)
                                THEN Some(Some(TimeClip(Add(newStart, duration))))
                                ELSE IF ~keepDuration THEN Some(None) ELSE None]
             IN  UpdateEvent(evs, uid, updates)

(***************************************************************************)
(* The Event Manager as a state machine on this.core.events                *)
(***************************************************************************)
\* The hours of 2024-01-15.
Hour(h) == MakeDate(2024, 0, 15, h, 0)

Title == <<"T","a","l","k">>

UidA == <<"a">>

\* A uid of no stored event.
UidZ == <<"z">>

\* An object without properties.
NoInput ==
    [isObject |-> TRUE, title |-> None, summary |-> None, start |-> None,
     startDate |-> None, end |-> None, uid |-> None, id |-> None]

\* The arguments of addEvent: null; a full event; the same under the names
\* summary, startDate and id; an event that ends before it starts; events
\* without title, with empty titles, without start, with an empty uid.
AddInputs ==
    { [NoInput EXCEPT !.isObject = FALSE],
      [NoInput EXCEPT !.title = Some(Title), !.start = Some(Hour(10)),
                      !.end = Some(Hour(11)), !.uid = Some(UidA)],
      [NoInput EXCEPT !.summary = Some(Title), !.startDate = Some(Hour(10)),
                      !.id = Some(UidA)],
      [NoInput EXCEPT !.title = Some(Title), !.start = Some(Hour(10)),
                      !.end = Some(Hour(9))],
      [NoInput EXCEPT !.start = Some(Hour(10)), !.uid = Some(UidA)],
      [NoInput EXCEPT !.title = Some(<<>>), !.summary = Some(<<>>),
                      !.start = Some(Hour(10))],
      [NoInput EXCEPT !.title = Some(Title), !.uid = Some(UidA)],
      [NoInput EXCEPT !.title = Some(Title), !.start = Some(Hour(10)),
                      !.uid = Some(<<>>)] }

\* Date.now() (in the unit of this model's times) and the random part of a
\* generated uid.
Nows == {Hour(10)}

RandomParts == {<<"k","3","f">>, <<"0","z">>}

GeneratedUids == {GenerateUID(now, random) : now \in Nows, random \in RandomParts}

\* The uid arguments: the uid of a stored event, one of no stored event,
\* the empty string, none.
UidArgs == {Some(events[i].uid) : i \in DOMAIN events} \cup {Some(UidZ), Some(<<>>), None}

\* The patches: {} and {uid: 'z', end: 11:00}.
Patches == {NoUpdates, [NoUpdates EXCEPT !.uid = Some(UidZ), !.end = Some(Some(Hour(11)))]}

\* The arguments of deleteEvents: no array, [], ['a', 'z'], and the uid of
\* a stored event alone.
UidLists ==
    {None, Some(<<>>), Some(<<UidA, UidZ>>)} \cup {Some(<<events[i].uid>>) : i \in DOMAIN events}

InitManager ==
    /\ StoreIdle
    /\ ExpandIdle
    /\ RRuleIdle

\* A call was made: the store after it, the call and its outcome. The store
\* grows up to MaxEvents events.
Called(outcome, args) ==
    /\ Len(outcome.store) <= (IF Len(events) > MaxEvents THEN Len(events) ELSE MaxEvents)
    /\ events' = outcome.store
    /\ call' = args
    /\ result' = outcome.result
    /\ UNCHANGED <<expandVars, rruleVars>>

CallAddEvent ==
    \E input \in AddInputs, generated \in GeneratedUids :
        Called(AddEvent(events, input, generated),
               [op |-> "addEvent", input |-> input, generated |-> generated])

CallUpdateEvent ==
    \E uid \in UidArgs, updates \in Patches :
        Called(UpdateEvent(events, uid, updates),
               [op |-> "updateEvent", uid |-> uid, updates |-> updates])

CallDeleteEvent ==
    \E uid \in UidArgs :
        Called(DeleteEvent(events, uid), [op |-> "deleteEvent", uid |-> uid])

CallDeleteEvents ==
    \E uids \in UidLists :
        Called(DeleteEvents(events, uids), [op |-> "deleteEvents", uids |-> uids])

CallDuplicateEvent ==
    \E uid \in UidArgs, modifications \in Patches, generated \in GeneratedUids :
        Called(DuplicateEvent(events, uid, modifications, generated),
               [op |-> "duplicateEvent", uid |-> uid, updates |-> modifications,
                generated |-> generated])

CallMoveEvent ==
    \E uid \in UidArgs, keepDuration \in BOOLEAN :
        Called(MoveEvent(events, uid, Hour(9), keepDuration),
               [op |-> "moveEvent", uid |-> uid, newStart |-> Hour(9),
                keepDuration |-> keepDuration])

NextManager ==
    \/ CallAddEvent
    \/ CallUpdateEvent
    \/ CallDeleteEvent
    \/ CallDeleteEvents
    \/ CallDuplicateEvent
    \/ CallMoveEvent

SpecManager == InitManager /\ [][NextManager]_vars

(***************************************************************************)
(* Properties of the Event Manager                                         *)
(***************************************************************************)
\* C16: after any sequence of addEvent, updateEvent, moveEvent,
\* duplicateEvent, deleteEvent and deleteEvents calls, every stored event
\* that has an end satisfies end >= start.
C16_EndNotBeforeStart ==
    \A i \in DOMAIN events :
        IsSome(events[i].end) => Val(events[i].end) >= Val(events[i].start)

\* Made of the digits of base 36.
IsBase36(text) == \A i \in DOMAIN text : Includes(Base36Digits, text[i])

\* <timestamp>-<random>@jscal
HasUidShape(uid) ==
    \E dash \in 2..(Len(uid) - 6) :
        /\ uid[dash] = "-"
        /\ IsBase36(SubSeq(uid, 1, dash - 1))
        /\ IsBase36(SubSeq(uid, dash + 1, Len(uid) - 6))
        /\ SubSeq(uid, Len(uid) - 5, Len(uid)) = <<"@","j","s","c","a","l">>

\* C17 as stated: addEvent(input) raises and leaves the Store unchanged
\* when input is not an object or lacks a title or a start; otherwise it
\* appends exactly one normalized event at the end of the Store and returns
\* it, with the uid given in the input or, when none is given, a generated
\* uid of the shape <timestamp>-<random>@jscal.
C17_AddEventAsStated ==
    [][call'.op = "addEvent"
         => LET input == call'.input
            IN  IF ~input.isObject \/ Falsy(input.title) \/ ~IsSome(input.start)
                THEN result'.raised /\ events' = events
                ELSE /\ ~result'.raised
                     /\ events' = Append(events, Val(result'.value))
                     /\ IF Falsy(input.uid)
                        THEN HasUidShape(Val(result'.value).uid)
                        ELSE Val(result'.value).uid = Val(input.uid)]_vars

\* C17 as amended: addEvent(input) raises and leaves the Store unchanged
\* when input is not an object, has neither a title nor a summary, or has
\* neither a start nor a startDate; otherwise it appends exactly one
\* normalized event at the end of the Store and returns it: its title is
\* the input's title or else summary, its start the input's start or else
\* startDate, its uid the input's uid, or else id, or else a generated uid
\* of the shape <timestamp>-<random>@jscal.
C17_AddEvent ==
    [][call'.op = "addEvent"
         => LET input == call'.input
            IN  IF \/ ~input.isObject
                   \/ Falsy(input.title) /\ Falsy(input.summary)
                   \/ ~IsSome(input.start) /\ ~IsSome(input.startDate)
                THEN result'.raised /\ events' = events
                ELSE LET added == Val(result'.value)
                     IN  /\ ~result'.raised
                         /\ events' = Append(events, added)
                         /\ added.title = IF Falsy(input.title) THEN Val(input.summary)
                                          ELSE Val(input.title)
                         /\ added.start = IF IsSome(input.start) THEN input.start
                                          ELSE input.startDate
                         /\ added.end = input.end
                         /\ IF ~Falsy(input.uid) THEN added.uid = Val(input.uid)
                            ELSE IF ~Falsy(input.id) THEN added.uid = Val(input.id)
                            ELSE HasUidShape(added.uid)]_vars

\* An event given with summary, startDate and id is appended after a first
\* one, with the id as uid.
C17_Witness ==
    /\ call.op = "addEvent"
    /\ ~IsSome(call.input.title) /\ ~IsSome(call.input.start) /\ ~IsSome(call.input.uid)
    /\ ~result.raised
    /\ Len(events) = 2
    /\ events[2] = Val(result.value)
    /\ events[2].uid = UidA /\ events[2].title = Title
    /\ HasUidShape(events[1].uid)

\* The position of the first stored event of that uid, 0 when there is none.
FirstOf(uid) ==
    IF \E i \in DOMAIN events : events[i].uid = uid
    THEN CHOOSE i \in DOMAIN events :
            events[i].uid = uid /\ \A j \in DOMAIN events : events[j].uid = uid => i <= j
    ELSE 0

\* The value of a field after a patch: the patch's when it names the field.
Overlaid(old, patched) == IF IsSome(patched) THEN Val(patched) ELSE old

\* C18: updateEvent(uid, patch) on a stored uid replaces that entry with
\* the existing fields overlaid by patch except uid, which stays the
\* original one even when patch contains a uid; the entry keeps its
\* position, the number of stored events and every other entry are
\* unchanged, and the new entry is returned. On an unknown uid it returns
\* null and the Store is unchanged.
C18_UpdateEvent ==
    [][call'.op = "updateEvent" /\ ~Falsy(call'.uid)
         => LET at    == FirstOf(Val(call'.uid))
                patch == call'.updates
            IN  IF at = 0
                THEN result' = Returned(None) /\ events' = events
                ELSE /\ Len(events') = Len(events)
                     /\ \A i \in DOMAIN events : i # at => events'[i] = events[i]
                     /\ events'[at].uid = events[at].uid
                     /\ events'[at].title = Overlaid(events[at].title, patch.title)
                     /\ events'[at].start = Overlaid(events[at].start, patch.start)
                     /\ events'[at].end = Overlaid(events[at].end, patch.end)
                     /\ result' = Returned(Some(events'[at]))]_vars

\* The second of two stored events was updated with {uid: 'z', end: 11:00}:
\* it is still the second, still has the uid 'a', and ends at 11:00.
C18_Witness ==
    /\ call.op = "updateEvent"
    /\ call.uid = Some(UidA)
    /\ call.updates.uid = Some(UidZ)
    /\ Len(events) = 2
    /\ events[1].uid # UidA
    /\ events[2].uid = UidA
    /\ events[2].end = Some(Hour(11))
    /\ result = Returned(Some(events[2]))

\* The operations that look an event up by its uid.
LookupOps == {"updateEvent", "deleteEvent", "duplicateEvent", "moveEvent"}

\* The uid argument identifies no stored event: it is absent, empty, or the
\* uid of none of them.
IdentifiesNone(uid) == ~IsSome(uid) \/ FirstOf(Val(uid)) = 0

\* C19: updateEvent, deleteEvent, duplicateEvent and moveEvent never raise
\* for a uid that identifies no stored event (an empty or absent uid
\* included): each returns its not-found result (null, or false for
\* deleteEvent) and leaves the Store unchanged.
C19_NotFoundNeverRaises ==
    [][call'.op \in LookupOps /\ IdentifiesNone(call'.uid)
         => /\ ~result'.raised
            /\ result' = IF call'.op = "deleteEvent" THEN Returned(FALSE)
                          ELSE Returned(None)
            /\ events' = events]_vars

(***************************************************************************)
(* Deletion from stores of up to MaxStored events                          *)
(***************************************************************************)
MaxStored == 3

\* The events addEvent stores for the arguments it accepts.
StorableEvents ==
    {AddEvent(<<>>, input, generated).store[1] :
        input \in {i \in AddInputs : ~AddEvent(<<>>, i, <<>>).result.raised},
        generated \in GeneratedUids}

\* The stores that addEvent calls build, up to MaxStored events.
Stores == UNION {[1..n -> StorableEvents] : n \in 0..MaxStored}

InitDelete ==
    /\ events \in Stores
    /\ call = NoCall
    /\ result = <<>>
    /\ ExpandIdle
    /\ RRuleIdle

NextDelete ==
    \/ CallDeleteEvent
    \/ CallDeleteEvents

SpecDelete == InitDelete /\ [][NextDelete]_vars

\* after holds the entries of before at the positions kept, and no others,
\* in the order and with the contents they had.
KeepsInOrder(before, after, kept) ==
    /\ Len(after) = Cardinality(kept)
    /\ \A i \in kept : after[Cardinality({j \in kept : j <= i})] = before[i]

\* C20: deleteEvent(uid) removes every stored entry whose uid equals uid
\* and returns true iff at least one entry was removed; deleteEvents(uids)
\* removes every stored entry whose uid is in uids and returns the number
\* of entries removed (unknown uids contribute 0), raising an error and
\* changing nothing when uids is not an array. In both, the entries that
\* remain keep their relative order and contents, and afterwards
\* findEventByUID of a deleted uid is null.
C20_Delete ==
    [][/\ call'.op = "deleteEvent" /\ ~Falsy(call'.uid)
          => LET kept == {i \in DOMAIN events : events[i].uid # Val(call'.uid)}
             IN  /\ KeepsInOrder(events, events', kept)
                 /\ result' = Returned(\E i \in DOMAIN events : i \notin kept)
                 /\ FindEventByUID(events', call'.uid) = None
       /\ call'.op = "deleteEvents"
          => IF ~IsSome(call'.uids)
             THEN result'.raised /\ events' = events
             ELSE LET uids == Val(call'.uids)
                      kept == {i \in DOMAIN events : ~Includes(uids, events[i].uid)}
                  IN  /\ KeepsInOrder(events, events', kept)
                      /\ result' = Returned(Len(events) - Cardinality(kept))
                      /\ \A k \in DOMAIN uids :
                             FindEventByUID(events', Some(uids[k])) = None]_vars

\* deleteEvent('a') returned true and left two stored events of other uids.
C20_Witness ==
    /\ call.op = "deleteEvent"
    /\ call.uid = Some(UidA)
    /\ result = Returned(TRUE)
    /\ Len(events) = 2
    /\ events[1].uid # events[2].uid
    /\ FindEventByUID(events, Some(UidA)) = None

\* C21: duplicateEvent(uid, overrides) on a stored uid appends exactly one
\* new entry at the end of the Store: a copy of the source's fields overlaid
\* by overrides, with the newly generated uid, which, the generator never
\* repeating a uid in use, is neither the source's uid nor a uid supplied in
\* overrides; the source entry and all other entries are unchanged. On an
\* unknown uid it returns null and the Store is unchanged.
C21_DuplicateEvent ==
    [][call'.op = "duplicateEvent"
         => IF IdentifiesNone(call'.uid)
            THEN result' = Returned(None) /\ events' = events
            ELSE LET source    == events[FirstOf(Val(call'.uid))]
                     overrides == call'.updates
                     fresh     == /\ \A i \in DOMAIN events : events[i].uid # call'.generated
                                  /\ overrides.uid # Some(call'.generated)
                     copy      == events'[Len(events')]
                 IN  /\ Len(events') = Len(events) + 1
                     /\ \A i \in DOMAIN events : events'[i] = events[i]
                     /\ copy.title = Overlaid(source.title, overrides.title)
                     /\ copy.start = Overlaid(source.start, overrides.start)
                     /\ copy.end = Overlaid(source.end, overrides.end)
                     /\ copy.uid = call'.generated
                     /\ HasUidShape(copy.uid)
                     /\ fresh => copy.uid # source.uid /\ Some(copy.uid) # overrides.uid
                     /\ result' = Returned(Some(copy))]_vars

\* The event 'a' was duplicated with the overrides {uid: 'z', end: 11:00}:
\* the copy is the second entry, ends at 11:00 and has a generated uid.
C21_Witness ==
    /\ call.op = "duplicateEvent"
    /\ call.uid = Some(UidA)
    /\ call.updates.uid = Some(UidZ)
    /\ Len(events) = 2
    /\ events[1].uid = UidA
    /\ events[2].uid = call.generated
    /\ events[2].uid # UidZ
    /\ events[2].end = Some(Hour(11))
    /\ events[2].title = events[1].title
    /\ result = Returned(Some(events[2]))

\* C22: moveEvent(uid, newStart, keepDuration) on a stored uid sets start
\* to newStart and keeps uid, title and position; with keepDuration true and
\* an existing end, the new end is newStart + (old end - old start); with
\* keepDuration false the end becomes null; with keepDuration true and no
\* end, the end stays absent. All other entries are unchanged, and the moved
\* entry is returned.
C22_MoveEvent ==
    [][call'.op = "moveEvent" /\ ~IdentifiesNone(call'.uid)
         => LET at    == FirstOf(Val(call'.uid))
                old   == events[at]
                moved == events'[at]
            IN  /\ Len(events') = Len(events)
                /\ \A i \in DOMAIN events : i # at => events'[i] = events[i]
                /\ moved.uid = old.uid
                /\ moved.title = old.title
                /\ moved.start = Some(call'.newStart)
                /\ moved.end =
                      IF call'.keepDuration /\ IsSome(old.end)
                      THEN Some(call'.newStart + (Val(old.end) - Val(old.start)))
                      ELSE None
                /\ result' = Returned(Some(moved))]_vars

\* The second of two stored events, 'a' from 10:00 to 11:00, was moved to
\* 09:00 with its duration: it is still the second and now ends at 10:00.
C22_Witness ==
    /\ call.op = "moveEvent"
    /\ call.uid = Some(UidA)
    /\ call.keepDuration
    /\ Len(events) = 2
    /\ events[1].uid # UidA
    /\ events[2].uid = UidA
    /\ events[2].start = Some(Hour(9))
    /\ events[2].end = Some(Hour(10))
    /\ result = Returned(Some(events[2]))

(***************************************************************************)
(* EventManager.validateEvent                                              *)
(***************************************************************************)
\* EventManager.validateEvent: a date that does not parse is NaN.
ValidateEvent(input) ==
    IF ~input.isObject
    THEN [valid |-> FALSE, errors |-> <<"Event must be an object">>]
    ELSE LET noTitle == IF Falsy(input.title) /\ Falsy(input.summary)
                        THEN <<"Event must have a title">> ELSE <<>>
             noStart == IF ~IsSome(input.start) /\ ~IsSome(input.startDate)
                        THEN <<"Event must have a start date">> ELSE <<>>
             badStart == IF IsSome(input.start) /\ IsNaN(DateOf(input.start))
                         THEN <<"Invalid start date">> ELSE <<>>
             badEnd == IF IsSome(input.end) /\ IsNaN(DateOf(input.end))
                       THEN <<"Invalid end date">> ELSE <<>>
             endFirst == IF /\ IsSome(input.end)
                            /\ IsSome(input.start)
                            /\ Lt(DateOf(input.end), DateOf(input.start))
                         THEN <<"End date must be after start date">> ELSE <<>>
             errors == noTitle \o noStart \o badStart \o badEnd \o endFirst
         IN  [valid |-> Len(errors) = 0, errors |-> errors]

\* The arguments of validateEvent: null, and the objects with or without a
\* title, a summary, a start, a startDate and an end, the dates at 09:00,
\* 10:00 or 11:00 or not parseable.
ValidateInputs ==
    {[NoInput EXCEPT !.isObject = FALSE]} \cup
    {[NoInput EXCEPT !.title = title, !.summary = summary, !.start = start,
                     !.startDate = startDate, !.end = end] :
        title \in {None, Some(<<>>), Some(Title)},
        summary \in {None, Some(Title)},
        start \in {None, Some(Hour(10)), Some(NaN)},
        startDate \in {None, Some(Hour(10)), Some(NaN)},
        end \in {None, Some(Hour(9)), Some(Hour(10)), Some(Hour(11)), Some(NaN)}}

CallValidateEvent ==
    \E input \in ValidateInputs :
        /\ call' = [op |-> "validateEvent", input |-> input]
        /\ result' = Returned(ValidateEvent(input))
        /\ UNCHANGED <<events, expandVars, rruleVars>>

NextValidate ==
    \/ CallAddEvent
    \/ CallValidateEvent

SpecValidate == InitManager /\ [][NextValidate]_vars

\* The title and the start of an input, under either of their names.
TitleOf(input) == OrElse(input.title, input.summary)

StartOf(input) == IF IsSome(input.start) THEN input.start ELSE input.startDate

\* C23: validateEvent(input) returns valid = true iff errors is empty, and
\* for every input it reports an error exactly when the title is missing,
\* the start is missing, the start or the end is not a parseable date, or
\* the end is before the start (end equal to start is accepted); it never
\* changes the Store. The title and the start are read under either of the
\* names addEvent accepts for them.
C23_ValidateEvent ==
    [][call'.op = "validateEvent"
         => LET input    == call'.input
                outcome  == Val(result'.value)
                start    == StartOf(input)
                rejected ==
                    \/ ~input.isObject
                    \/ Falsy(TitleOf(input))
                    \/ ~IsSome(start)
                    \/ IsSome(start) /\ IsNaN(Val(start))
                    \/ IsSome(input.end) /\ IsNaN(Val(input.end))
                    \/ /\ IsSome(start) /\ IsSome(input.end)
                       /\ ~IsNaN(Val(start)) /\ ~IsNaN(Val(input.end))
                       /\ Val(input.end) < Val(start)
            IN  /\ outcome.valid <=> outcome.errors = <<>>
                /\ outcome.errors # <<>> <=> rejected
                /\ events' = events]_vars

(***************************************************************************)
(* The adapters: ICSParser.parse and JSONParser.parse                      *)
(***************************************************************************)
MaxRecords == 2

IsBlank(c) == c = " " \/ c = "\t"

RECURSIVE Trim(_)
\* String.prototype.trim, for blanks and tabs.
Trim(s) ==
    IF Len(s) > 0 /\ IsBlank(s[1]) THEN Trim(Tail(s))
    ELSE IF Len(s) > 0 /\ IsBlank(s[Len(s)]) THEN Trim(SubSeq(s, 1, Len(s) - 1))
    ELSE s

BeginLine == <<"B","E","G","I","N",":","V","E","V","E","N","T">>

EndLine == <<"E","N","D",":","V","E","V","E","N","T">>

\* The event ICSParser.parse starts at BEGIN:VEVENT, in the fields modelled.
BlankEvent == [title |-> <<>>, start |-> None, uid |-> <<>>]

\* /^[ \t]/.test(line)
IsContinuation(line) == Len(line) > 0 /\ IsBlank(line[1])

RECURSIVE Unfold(_, _, _)
\* The folded line that begins at lines[i], given its text so far: the
\* text with every continuation line appended, and the index of the last
\* line taken.
Unfold(lines, i, line) ==
    IF i + 1 <= Len(lines) /\ IsContinuation(lines[i + 1])
    THEN Unfold(lines, i + 1, line \o Trim(lines[i + 1]))
    ELSE [line |-> line, last |-> i]

\* The switch on the key of a property line; parseDate gives a Date object
\* for every text, here the text itself.
SetProperty(current, line) ==
    LET colonIndex == IndexOf(line, ":")
        fullKey    == Substring(line, 0, colonIndex - 1)
        value      == Substring(line, colonIndex, Len(line))
        key        == Split(fullKey, ";")[1]
    IN  IF colonIndex = 0 THEN current
        ELSE IF key = <<"S","U","M","M","A","R","Y">> THEN [current EXCEPT !.title = value]
        ELSE IF key = <<"D","T","S","T","A","R","T">> THEN [current EXCEPT !.start = Some(value)]
        ELSE IF key = <<"U","I","D">> THEN [current EXCEPT !.uid = value]
        ELSE current

RECURSIVE ICSWalk(_, _, _, _, _)
\* The loop of ICSParser.parse from line i on; current is None for null.
ICSWalk(lines, i, inEvent, current, parsedEvents) ==
    IF i > Len(lines) THEN parsedEvents
    ELSE LET unfolded == Unfold(lines, i, Trim(lines[i]))
             line     == unfolded.line
             next     == unfolded.last + 1
         IN  IF line = BeginLine
             THEN ICSWalk(lines, next, TRUE, Some(BlankEvent), parsedEvents)
             ELSE IF line = EndLine /\ inEvent
             THEN ICSWalk(lines, next, FALSE, None,
                          IF IsSome(current) /\ IsSome(Val(current).start)
                          THEN Append(parsedEvents, Val(current)) ELSE parsedEvents)
             ELSE IF inEvent /\ IsSome(current)
             THEN ICSWalk(lines, next, inEvent, Some(SetProperty(Val(current), line)),
                          parsedEvents)
             ELSE ICSWalk(lines, next, inEvent, current, parsedEvents)

\* ICSParser.parse on the lines of the content.
ICSParse(lines) == ICSWalk(lines, 1, FALSE, None, <<>>)

\* JSONParser.normalizeEvent, in the fields modelled; random is
\* Math.random().toString(36).substr(2, 9).
JSONNormalizeEvent(record, random) ==
    [title |-> Val(OrElse(OrElse(record.title, record.summary),
                          Some(<<"U","n","t","i","t","l","e","d">>))),
     start |-> record.start,
     uid   |-> Val(OrElse(OrElse(record.uid, record.id), Some(random)))]

\* JSONParser.parse: text that JSON.parse rejects, one object, or an array.
JSONParse(jsonData, randoms) ==
    IF jsonData.kind = "invalid" THEN Raised("Invalid JSON format")
    ELSE Returned([i \in DOMAIN jsonData.items |->
                      JSONNormalizeEvent(jsonData.items[i], randoms[i])])

UidB == <<"b">>

UidLine(uid) == <<"U","I","D",":">> \o uid

StartLine == <<"D","T","S","T","A","R","T",":","2","0","2","4","0","1","1","5">>

\* The VEVENT blocks: without UID, with UID a, b, or a folded over two
\* lines, with or without DTSTART.
Blocks ==
    {<<BeginLine>> \o uidLines \o startLines \o <<EndLine>> :
        uidLines \in {<<>>, <<UidLine(UidA)>>, <<UidLine(UidB)>>,
                      <<UidLine(UidA), <<" ","b">>>>},
        startLines \in {<<>>, <<StartLine>>}}

RECURSIVE Contents(_)
\* The contents of up to n blocks.
Contents(n) ==
    IF n = 0 THEN {<<>>}
    ELSE Contents(n - 1) \cup {content \o block : content \in Contents(n - 1), block \in Blocks}

\* The records of a JSON input: with uid, with id, with both, with neither,
\* with an empty uid.
Records ==
    {[title |-> Some(Title), summary |-> None, start |-> Some(Hour(10)), uid |-> uid, id |-> id] :
        uid \in {None, Some(<<>>), Some(UidA), Some(UidB)}, id \in {None, Some(UidA)}}

JSONInputs ==
    {[kind |-> "invalid", items |-> <<>>]} \cup
    {[kind |-> "object", items |-> <<record>>] : record \in Records} \cup
    {[kind |-> "array", items |-> items] :
        items \in UNION {[1..n -> Records] : n \in 0..MaxRecords}}

CallICSParse ==
    \E lines \in Contents(MaxRecords) :
        /\ call' = [op |-> "ICSParser.parse", lines |-> lines]
        /\ result' = Returned(ICSParse(lines))
        /\ UNCHANGED <<events, expandVars, rruleVars>>

CallJSONParse ==
    \E jsonData \in JSONInputs, randoms \in [1..MaxRecords -> RandomParts] :
        /\ call' = [op |-> "JSONParser.parse", jsonData |-> jsonData, randoms |-> randoms]
        /\ result' = JSONParse(jsonData, randoms)
        /\ UNCHANGED <<events, expandVars, rruleVars>>

NextAdapters ==
    \/ CallICSParse
    \/ CallJSONParse

SpecAdapters == InitManager /\ [][NextAdapters]_vars

\* C24: within one parse call, the ICS adapter and the JSON adapter each
\* return events with pairwise distinct uids, also when input records carry
\* no UID/uid or repeat one.
C24_DistinctUids ==
    call.op \in {"ICSParser.parse", "JSONParser.parse"} /\ ~result.raised
        => LET parsedEvents == Val(result.value)
           IN  \A i, j \in DOMAIN parsedEvents :
                  i # j => parsedEvents[i].uid # parsedEvents[j].uid

(***************************************************************************)
(* The series of candidates of a walk                                      *)
(***************************************************************************)
\* The candidate after c in the series of the event's rule.
NextCandidate(c) == GetNextOccurrence(c, Val(WalkRule.freq), IntervalOf(WalkRule))

RECURSIVE MatchingFrom(_, _)
\* The number of candidates from c up to t that match the filters of the
\* rule.
MatchingFrom(c, t) ==
    IF IsNaN(c) \/ c > t THEN 0
    ELSE (IF MatchesRule(c, WalkRule) THEN 1 ELSE 0)
         + (IF Gt(NextCandidate(c), c) THEN MatchingFrom(NextCandidate(c), t) ELSE 0)

\* The position of the candidate t among the matching candidates of the
\* series counted from event.start.
MatchRank(t) == MatchingFrom(event.start, t)

\* The rule gives a COUNT that the walk uses.
HasCount == IsSome(WalkRule.count) /\ Val(WalkRule.count) >= 1

\* C25: for a rule with COUNT=n, expandRecurrence only emits occurrences
\* among the first n filter-matching candidates of the series counted from
\* event.start, whatever rangeStart is: matching candidates before the
\* query range still count toward COUNT, so no occurrence later than the
\* n-th matching candidate is ever emitted.
C25_CountFromEventStart ==
    (Walking /\ HasCount)
    => \A i \in DOMAIN occurrences : MatchRank(occurrences[i].start) <= Val(WalkRule.count)

\* The occurrence o, running over [start, start + duration), or at the
\* instant of its start when it has no duration, meets the range from
\* rangeStart on.
RunsIntoRange(o) ==
    \/ o.start >= Val(rangeStart)
    \/ IsSome(o.end) /\ Val(o.end) > Val(rangeStart)

\* C26: at the lower edge of the range, every occurrence expandRecurrence
\* emits has rangeStart - duration <= start and an interval
\* [start, start + duration) that overlaps the range: one that starts
\* before rangeStart but is still running at rangeStart is kept, one that
\* has already ended by rangeStart is not emitted.
C26_LowerEdge ==
    (Walking /\ IsSome(rangeStart))
    => \A i \in DOMAIN occurrences :
          /\ occurrences[i].start >= Val(rangeStart) - EventDuration(event)
          /\ RunsIntoRange(occurrences[i])

RECURSIVE ReachesFrom(_, _)
\* t is a candidate of the series from c on.
ReachesFrom(c, t) ==
    IF IsNaN(c) \/ c > t THEN FALSE
    ELSE c = t \/ (Gt(NextCandidate(c), c) /\ ReachesFrom(NextCandidate(c), t))

\* The candidate t matches the filters, is not before the widened
\* rangeStart and not after until and rangeEnd.
Admitted(t) ==
    /\ ReachesFrom(event.start, t)
    /\ MatchesRule(t, WalkRule)
    /\ IsSome(rangeStart) => t >= Val(rangeStart) - EventDuration(event)
    /\ IsSome(WalkRule.until) => t <= Val(WalkRule.until)
    /\ IsSome(rangeEnd) => t <= Val(rangeEnd)

Emitted(t) == \E i \in DOMAIN occurrences : occurrences[i].start = t

\* The walk ended before it had emitted count (or maxOccurrences)
\* occurrences.
CountNotReached == Len(occurrences) < MaxCountOf(WalkRule, maxOccurrences)

\* C27: upper bounds are inclusive: no occurrence emitted by
\* expandRecurrence starts after rule.until (when set) or after rangeEnd
\* (when set), and a filter-matching candidate whose start equals until or
\* rangeEnd exactly is still emitted (subject to count).
C27_UpperBoundsInclusive ==
    /\ Walking
       => \A i \in DOMAIN occurrences :
             /\ IsSome(WalkRule.until) => occurrences[i].start <= Val(WalkRule.until)
             /\ IsSome(rangeEnd) => occurrences[i].start <= Val(rangeEnd)
    /\ (Finished /\ CountNotReached)
       => /\ (IsSome(WalkRule.until) /\ Admitted(Val(WalkRule.until)))
                => Emitted(Val(WalkRule.until))
          /\ (IsSome(rangeEnd) /\ Admitted(Val(rangeEnd))) => Emitted(Val(rangeEnd))

\* A weekly walk from Thursday 2024-02-29 10:00 with until 2024-03-07 10:00
\* and room for a third occurrence ended with the occurrence at until.
C27_Witness ==
    /\ Finished /\ CountNotReached
    /\ WalkRule.freq = Some(WEEKLY)
    /\ IsSome(WalkRule.until) /\ ~IsSome(rangeEnd)
    /\ Len(occurrences) = 2
    /\ occurrences[2].start = Val(WalkRule.until)

\* The date t passes every filter the rule r has.
PassesAllFilters(t, r) ==
    /\ IsSome(r.byMonth) => Includes(Val(r.byMonth), (MonthIndex(t) % 12) + 1)
    /\ IsSome(r.byMonthDay) => Includes(Val(r.byMonthDay), DateOfMonth(t))
    /\ IsSome(r.byDay) => Includes(Val(r.byDay), WeekdayCodes[Weekday(t) + 1])

\* next is one step of freq * interval after prev.
OneStepAfter(prev, next, r) ==
    CASE r.freq = Some(DAILY) -> next = prev + StepOf(r) * MinutesPerDay
      [] r.freq = Some(WEEKLY) -> next = prev + 7 * StepOf(r) * MinutesPerDay
      [] r.freq = Some(MONTHLY) -> RolledOver(prev, next, StepOf(r))
      [] r.freq = Some(YEARLY) -> RolledOver(prev, next, 12 * StepOf(r))
      [] OTHER -> FALSE

\* The loop examines the candidate currentDate: no stop condition holds.
Examining ==
    /\ pc = "loop"
    /\ count < MaxCountOf(WalkRule, maxOccurrences)
    /\ IsSome(WalkRule.until) => currentDate <= Val(WalkRule.until)
    /\ IsSome(rangeEnd) => currentDate <= Val(rangeEnd)

\* C28: BY-filters have AND semantics: every occurrence emitted by
\* expandRecurrence satisfies all filters present in the rule (month in
\* byMonth, day of month in byMonthDay, weekday in byDay), and a candidate
\* failing any present filter is not emitted and does not count toward
\* count, while the walk still advances by one freq * interval step from it
\* (a step within the years the dates of this model cover).
C28_FiltersAnd ==
    [][/\ (pc' # "call" /\ ~NotRecurring(event))
          => \A i \in DOMAIN occurrences' : PassesAllFilters(occurrences'[i].start, WalkRule)
       /\ (Examining /\ ~PassesAllFilters(currentDate, WalkRule))
          => /\ occurrences' = occurrences
             /\ count' = count
             /\ IsNaN(currentDate') \/ OneStepAfter(currentDate, currentDate', WalkRule)]_vars

\* A daily walk from Wednesday 2024-01-31 with BYDAY=MO,TH and BYMONTH=2,3
\* passed over the 31st and emitted Thursday 02-01 and Monday 02-05.
C28_Witness ==
    /\ Finished
    /\ event.start = MakeDate(2024, 0, 31, 10, 0)
    /\ WalkRule.freq = Some(DAILY)
    /\ IsSome(WalkRule.byDay) /\ IsSome(WalkRule.byMonth) /\ ~IsSome(WalkRule.byMonthDay)
    /\ ~IsSome(rangeStart)
    /\ Len(occurrences) = 2
    /\ occurrences[1].start = MakeDate(2024, 1, 1, 10, 0)
    /\ occurrences[2].start = MakeDate(2024, 1, 5, 10, 0)

(***************************************************************************)
(* Lookups by uid on stores that hold a uid more than once                 *)
(***************************************************************************)
\* A store that addEvent calls have built, before the lookup on it.
InitLookup ==
    /\ events \in Stores
    /\ call = NoCall
    /\ result = <<>>
    /\ ExpandIdle
    /\ RRuleIdle

\* The lookup was made: the store after it, the call and its outcome.
Looked(outcome, args) ==
    /\ call = NoCall
    /\ events' = outcome.store
    /\ call' = args
    /\ result' = outcome.result
    /\ UNCHANGED <<expandVars, rruleVars>>

LookupFindEventByUID ==
    \E uid \in UidArgs :
        Looked([store |-> events, result |-> Returned(FindEventByUID(events, uid))],
               [op |-> "findEventByUID", uid |-> uid])

LookupUpdateEvent ==
    \E uid \in UidArgs, updates \in Patches :
        Looked(UpdateEvent(events, uid, updates),
               [op |-> "updateEvent", uid |-> uid, updates |-> updates])

LookupMoveEvent ==
    \E uid \in UidArgs, keepDuration \in BOOLEAN :
        Looked(MoveEvent(events, uid, Hour(9), keepDuration),
               [op |-> "moveEvent", uid |-> uid, newStart |-> Hour(9),
                keepDuration |-> keepDuration])

LookupDuplicateEvent ==
    \E uid \in UidArgs, modifications \in Patches, generated \in GeneratedUids :
        Looked(DuplicateEvent(events, uid, modifications, generated),
               [op |-> "duplicateEvent", uid |-> uid, updates |-> modifications,
                generated |-> generated])

NextLookup ==
    \/ LookupFindEventByUID
    \/ LookupUpdateEvent
    \/ LookupMoveEvent
    \/ LookupDuplicateEvent

SpecLookup == InitLookup /\ [][NextLookup]_vars

\* Several stored events have the uid.
Shared(uid) ==
    IsSome(uid) /\ Cardinality({i \in DOMAIN events : events[i].uid = Val(uid)}) >= 2

\* C29: when several stored events share a uid, every uid-keyed lookup
\* acts on the earliest-inserted match only: findEventByUID returns it, and
\* updateEvent, moveEvent and duplicateEvent read and modify only that
\* entry, leaving later entries with the same uid untouched.
C29_FirstMatchOnly ==
    [][(call'.op \in {"findEventByUID", "updateEvent", "moveEvent", "duplicateEvent"}
          /\ Shared(call'.uid))
         => LET first  == FirstOf(Val(call'.uid))
                source == events[first]
                others == \A i \in DOMAIN events : i # first => events'[i] = events[i]
            IN  CASE call'.op = "findEventByUID" ->
                        result' = Returned(Some(source)) /\ events' = events
                  [] call'.op = "updateEvent" ->
                        /\ Len(events') = Len(events) /\ others
                        /\ events'[first].end = Overlaid(source.end, call'.updates.end)
                        /\ result' = Returned(Some(events'[first]))
                  [] call'.op = "moveEvent" ->
                        /\ Len(events') = Len(events) /\ others
                        /\ events'[first].start = Some(call'.newStart)
                        /\ events'[first].end =
                              IF call'.keepDuration /\ IsSome(source.end)
                              THEN Some(call'.newStart + (Val(source.end) - Val(source.start)))
                              ELSE None
                        /\ result' = Returned(Some(events'[first]))
                  [] call'.op = "duplicateEvent" ->
                        /\ Len(events') = Len(events) + 1
                        /\ \A i \in DOMAIN events : events'[i] = events[i]
                        /\ events'[Len(events')].end = Overlaid(source.end, call'.updates.end)
                        /\ events'[Len(events')].start = source.start
                        /\ result' = Returned(Some(events'[Len(events')]))]_vars

\* Of two stored events with the uid 'a', moveEvent('a', 09:00) moved the
\* first, from 10:00-11:00 to 09:00-10:00, and left the second, which has no
\* end, at 10:00.
C29_Witness ==
    /\ call.op = "moveEvent"
    /\ call.uid = Some(UidA)
    /\ call.keepDuration
    /\ Len(events) = 2
    /\ events[1].uid = UidA /\ events[2].uid = UidA
    /\ events[1].start = Some(Hour(9)) /\ events[1].end = Some(Hour(10))
    /\ events[2].start = Some(Hour(10)) /\ events[2].end = None
    /\ result = Returned(Some(events[1]))

RECURSIVE CellEvents(_, _)
\* The number of events carried by the first n cells of the grid.
CellEvents(grid, n) ==
    IF n = 0 THEN 0 ELSE CellEvents(grid, n - 1) + Len(grid[n].events)

\* C30: in the result of getMonthGrid(year, month), totalEvents equals the
\* total number of events carried by the grid's day cells: every event
\* counted in totalEvents appears in exactly one day cell, and every event
\* in a day cell (events on the month's last day included) is counted in
\* totalEvents.
C30_TotalEvents ==
    call.op = "getMonthGrid"
    => result.totalEvents = CellEvents(result.grid, Len(result.grid))

====
